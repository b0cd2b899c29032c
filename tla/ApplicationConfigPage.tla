------------------------ MODULE ApplicationConfigPage ------------------------
(***************************************************************************)
(* The page where an application is put together: its components and their *)
(* traits, policies, sources and triggers, each edited in a dialog.        *)
(***************************************************************************)
EXTENDS ApplicationPages

-----------------------------------------------------------------------------
(* What the page reads *)

ApplicationConfig_loadSources == Call("page", applicationApi1.getSources, {}, Show, {})

ApplicationConfig_onGetApplicationTrigger ==
    Call("page", applicationApi2.getApplicationTriggers, {}, Show, {})

ApplicationConfig_loadAppStatistics ==
    Call("page", applicationApi2.getApplicationStatistics, {}, Show, {})

ApplicationConfig_onGetPolicyScopes ==
    Call("page", definitionsApi1.getPolicyDefinitions, {}, Show, Show)

\* The namespaces the application deploys to are its parameters.
ApplicationConfig_onGetComponentDefinitions ==
    LatestOnly(Search("page", definitionsApi1.getComponentDefinitions, {}, Show, {}))

\* The bindings that arrive change the namespaces.
ApplicationConfig_componentDidUpdate ==
    Call("page", applicationApi1.getApplicationEnvbinding, {}, Show \cup Reload({"onGetComponentDefinitions"}), {})

ApplicationConfig_openAddIfAsked(dialog) == Act("page", Open(dialog))

-----------------------------------------------------------------------------
(* The application itself *)

ApplicationConfig_editAppPlan == Act("page", Open("EditAppDialog"))

ApplicationConfig_onOkEditAppDialog ==
    Close({"EditAppDialog"}) \cup Run({"onGetApplicationDetails"})

ApplicationConfig_onCloseEditAppDialog == Act("EditAppDialog", Close({"EditAppDialog"}))

ApplicationConfig_onGetApplicationDetails ==
    Call("page", applicationApi1.getApplicationDetails, {}, Show, {})

ApplicationConfig_onDeleteApplication ==
    Call("page", applicationApi1.deleteApplication, {}, Leave, {})

ApplicationConfig_overview == Offer("page", {"editAppPlan", "onDeleteApplication"}, {})

-----------------------------------------------------------------------------
(* Components and their traits *)

ApplicationConfig_onLoadApplicationComponents == store_getApplicationComponents

ApplicationConfig_editComponent == Act("page", Open("EditComponent"))

ApplicationConfig_onAddComponent == ApplicationConfig_openAddIfAsked("NewComponent")

ApplicationConfig_onDeleteComponent ==
    Call("page", applicationApi2.deleteComponent, {}, Run({"onLoadApplicationComponents"}), {})

\* Whether the component was saved or not, the components are read again.
ApplicationConfig_onComponentClose ==
    Close({"NewComponent", "EditComponent"}) \cup Run({"onLoadApplicationComponents"})

ApplicationConfig_onComponentOK ==
    Close({"NewComponent", "EditComponent"}) \cup Run({"onLoadApplicationComponents"})

ApplicationConfig_onDeleteTrait ==
    Call("page", applicationApi2.deleteTrait, {}, Run({"onLoadApplicationComponents"}), {})

ApplicationConfig_onOk ==
    Close({"TraitDialog"}) \cup Run({"onLoadApplicationComponents"})

ApplicationConfig_onClose == Act("TraitDialog", Close({"TraitDialog"}))

ApplicationConfig_onAddTrait == Act("page", Open("TraitDialog"))

ApplicationConfig_components == Offer("page", {"onAddComponent"}, {})

\* The component's properties are read when its row is opened and not again.
ComponentList_toggle ==
    Call("page", applicationApi1.getApplicationComponent, {}, Show, Show)

ComponentList_rows == Offer("page", {"toggle", "onDeleteTrait", "onAddTrait"}, {})

ComponentList_rowActions == Offer("page", {"editComponent", "onDeleteComponent"}, {})

\* The failed answer is an environment of nothing.
ComponentDialog_loadExpressionEnv(on) ==
    Call(on, applicationApi2.getExpressionEnv, {}, Show, Show)

\* A failure does not reach the catch: the environment is read again.
ComponentDialog_setExpressionOptIn(on, load) ==
    Call(on, applicationApi3.setExpressionOptIn, {}, Run({load}), Run({load}))

\* Without an answer the dialog stays on its spinner.
ComponentDialog_onGetEditComponentInfo ==
    Call("EditComponent", applicationApi1.getApplicationComponent, {"loading"},
     Clear("loading") \cup Run({"editType"}), {})

\* Of a new component nothing is read before its type is chosen.
ComponentDialog_componentDidMount ==
    [NewComponent |-> {"newEnv"}, EditComponent |-> {"editEnv", "onGetEditComponentInfo"}]

ComponentDialog_onDetailsComponentDefinition(on) ==
    Call(on, definitionsApi1.detailComponentDefinition, {}, Show \cup Clear("loading"), {})

ComponentDialog_onSubmitCreate ==
    Call("NewComponent", applicationApi1.createApplicationComponent, {"isCreateComponentLoading"},
     ApplicationConfig_onComponentOK \cup Clear("isCreateComponentLoading"),
     Clear("isCreateComponentLoading"))

ComponentDialog_onSubmitEditComponent ==
    Call("EditComponent", applicationApi2.updateComponentProperties, {"isUpdateComponentLoading"},
     ApplicationConfig_onComponentOK \cup Clear("isUpdateComponentLoading"),
     Clear("isUpdateComponentLoading"))

ComponentDialog_extButtonList ==
    Offer("NewComponent", {"createComponent"}, {"isCreateComponentLoading"})
    \cup Offer("EditComponent", {"updateComponent"}, {"isUpdateComponentLoading"})

ComponentDialog_onClose(on) == Act(on, ApplicationConfig_onComponentClose)

ComponentDialog_type ==
    Offer("NewComponent", {"closeNew", "newType"}, {}) \cup Offer("EditComponent", {"closeEdit"}, {})
    \cup Offer("EditComponent", {"editType"}, {"loading"})

ComponentDialog_properties ==
    Offer("NewComponent", {"newOptIn"}, {}) \cup Offer("EditComponent", {"editOptIn"}, {"loading"})

TraitDialog_loadExpressionEnv == ComponentDialog_loadExpressionEnv("TraitDialog")

TraitDialog_setExpressionOptIn ==
    ComponentDialog_setExpressionOptIn("TraitDialog", "traitEnv")

TraitDialog_componentDidMount == {"traitEnv", "onGetComponentInfo"}

TraitDialog_onGetComponentInfo ==
    Call("TraitDialog", applicationApi1.getApplicationComponent, {},
     FillForm \cup Run({"onGetTraitDefinitions", "onDetailsTraitDefinition"}), {})

TraitDialog_onGetTraitDefinitions ==
    Call("TraitDialog", definitionsApi1.getTraitDefinitions, {}, Show, {})

\* The failed answer is not an error to catch: the spinner stays.
TraitDialog_onDetailsTraitDefinition ==
    Call("TraitDialog", definitionsApi1.detailTraitDefinition, {"definitionLoading"},
     Show \cup Clear("definitionLoading"), {})

TraitDialog_handleTypeChange == Act("TraitDialog", Run({"onDetailsTraitDefinition"}))

TraitDialog_onSubmit(api) ==
    Call("TraitDialog", api, {"isLoading"}, ApplicationConfig_onOk \cup Clear("isLoading"),
     Clear("isLoading"))

TraitDialog_extButtonList ==
    Offer("TraitDialog", {"createTrait", "updateTrait"}, {"isLoading"})
    \cup Offer("TraitDialog", {"closeTrait"}, {})

TraitDialog_type ==
    Offer("TraitDialog", {"handleTypeChange"}, {}) \cup Offer("TraitDialog", {"closeTrait"}, {})

TraitDialog_properties == Offer("TraitDialog", {"traitOptIn"}, {"definitionLoading"})

-----------------------------------------------------------------------------
(* Policies *)

ApplicationConfig_onAddPolicy == ApplicationConfig_openAddIfAsked("PolicyDialog")

\* Refused because a workflow uses the policy, the deletion is offered again with
\* force.
ApplicationConfig_onDeletePolicy ==
    Call("page", applicationApi1.deletePolicy, {}, Run({"loadApplicationPolicies"}), Open("ForceDelete"))

ApplicationConfig_onEditPolicy ==
    Call("page", applicationApi1.getPolicyDetail, {}, FillForm \cup Open("EditPolicy"), {})

ApplicationConfig_loadApplicationPolicies == store_getApplicationPolicies

ApplicationConfig_policies == Offer("page", {"onAddPolicy"}, {})

PolicyList == Offer("page", {"onEditPolicy", "onDeletePolicy"}, {})

PolicyDialog_componentDidMount ==
    [PolicyDialog |-> {}, EditPolicy |-> {"editPolicyDetail"}]

PolicyDialog_handleTypeChange == Act("PolicyDialog", Run({"newPolicyDetail"}))

PolicyDialog_onSelectPolicy ==
    Act("PolicyDialog", Run({"loadPolicyDefinitions", "newPolicyDetail"}))

PolicyDialog_loadPolicyDefinitions ==
    Call("PolicyDialog", definitionsApi1.getPolicyDefinitions, {}, Show, {})

PolicyDialog_loadPolicyDefinitionDetail(on) ==
    Call(on, definitionsApi1.detailPolicyDefinition, {"definitionDetailLoading"},
     Show \cup Clear("definitionDetailLoading"), Clear("definitionDetailLoading"))

PolicyDialog_onOK ==
    Close({"PolicyDialog", "EditPolicy"}) \cup Run({"loadApplicationPolicies"})

PolicyDialog_onSubmitCreate ==
    Call("PolicyDialog", applicationApi1.createPolicy, {"createPolicyLoading"},
     PolicyDialog_onOK \cup Clear("createPolicyLoading"), Clear("createPolicyLoading"))

\* The spinner is on before the missing type is noticed.
PolicyDialog_onSubmitWithoutType == Act("PolicyDialog", Spin("createPolicyLoading"))

PolicyDialog_onSubmitUpdate ==
    Call("EditPolicy", applicationApi1.updatePolicy, {"createPolicyLoading"},
     PolicyDialog_onOK \cup Clear("createPolicyLoading"), Clear("createPolicyLoading"))

PolicyDialog_extButtonList ==
    Offer("PolicyDialog", {"createPolicy", "createWithoutType"}, {"createPolicyLoading"})
    \cup Offer("EditPolicy", {"updatePolicy"}, {"createPolicyLoading"})

PolicyDialog_type ==
    Offer("PolicyDialog", {"closePolicy", "onSelectPolicy", "changePolicyType"}, {})
    \cup Offer("EditPolicy", {"closeEditPolicy"}, {})

-----------------------------------------------------------------------------
(* Sources *)

ApplicationConfig_onDeleteSource ==
    Call("page", applicationApi1.deleteSource, {}, Run({"loadSources"}), {})

ApplicationConfig_sources == Offer("page", {"addSource"}, {})

SourceDialog_onOK == Close({"SourceDialog"}) \cup Run({"loadSources"})

SourceList == Offer("page", {"editSource", "onDeleteSource"}, {})

SourceDialog_loadDefinitions ==
    Call("SourceDialog", definitionsApi1.getSourceDefinitions, {}, Show, {})

SourceDialog_componentDidMount == {"sourceEnv", "loadDefinitions", "loadDefinition"}

SourceDialog_loadExpressionEnv == ComponentDialog_loadExpressionEnv("SourceDialog")

SourceDialog_setExpressionOptIn ==
    ComponentDialog_setExpressionOptIn("SourceDialog", "sourceEnv")

SourceDialog_loadDefinition ==
    Call("SourceDialog", definitionsApi1.detailSourceDefinition, {"loading"}, Show \cup Clear("loading"),
     Clear("loading"))

SourceDialog_changeType == Act("SourceDialog", Run({"loadDefinition"}))

SourceDialog_onSubmit(api) ==
    Call("SourceDialog", api, {"saving"}, SourceDialog_onOK \cup Clear("saving"), Clear("saving"))

SourceDialog_render ==
    Offer("SourceDialog", {"createSource", "updateSource"}, {"saving"})
    \cup Offer("SourceDialog", {"closeSource", "changeSourceType"}, {})

SourceDialog_properties == Offer("SourceDialog", {"sourceOptIn"}, {"loading"})

-----------------------------------------------------------------------------
(* Triggers *)

ApplicationConfig_onAddTrigger == ApplicationConfig_openAddIfAsked("TriggerDialog")

ApplicationConfig_onTriggerClose ==
    Act("TriggerDialog", Close({"TriggerDialog"}) \cup Run({"onLoadApplicationComponents"}))

\* The list is handed the trigger that was saved, and shows its webhook.
ApplicationConfig_onTriggerOk ==
    Close({"TriggerDialog"}) \cup Run({"onGetApplicationTrigger"}) \cup Open("Webhook")

ApplicationConfig_onDeleteTrigger ==
    Call("page", applicationApi2.deleteTrigger, {}, Run({"onGetApplicationTrigger"}), {})

ApplicationConfig_triggers == Offer("page", {"onAddTrigger"}, {})

TriggerList_showWebhook == Act("page", Open("Webhook"))

TriggerList_loadComponentDetail ==
    Call("Webhook", applicationApi1.getApplicationComponent, {}, Show, {})

TriggerList_closeWebhook == Act("Webhook", Close({"Webhook"}))

TriggerList_rows == Offer("page", {"showWebhook", "editTrigger", "onDeleteTrigger"}, {})

TriggerList_webhook == Offer("Webhook", {"closeWebhook"}, {})

TriggerDialog_componentDidMount == {"onGetPayloadType", "onDetailComponentDefinition"}

TriggerDialog_onGetPayloadType ==
    Call("TriggerDialog", payloadApi.getPayloadType, {}, Show, {})

\* The failed answer is not an error to catch: the flag stays, and nothing shows it.
TriggerDialog_onDetailComponentDefinition ==
    Call("TriggerDialog", definitionsApi1.detailComponentDefinition, {}, Show, {})

TriggerDialog_onSubmit(api) ==
    Call("TriggerDialog", api, {"submitLoading"},
     ApplicationConfig_onTriggerOk \cup Clear("submitLoading"), Clear("submitLoading"))

TriggerDialog_extButtonList ==
    Offer("TriggerDialog", {"createTrigger", "updateTrigger"}, {"submitLoading"})
    \cup Offer("TriggerDialog", {"closeTrigger"}, {})

TriggerDialog_changeType == Act("TriggerDialog", Run({"onGetPayloadType"}))

TriggerDialog_changeComponentName ==
    Act("TriggerDialog", Run({"onDetailComponentDefinition"}))

TriggerDialog_render ==
    Offer("TriggerDialog", {"changeType", "changeComponentName"}, {})

-----------------------------------------------------------------------------
(* The sections of the page, each with the reads it shows *)

\* The stores are those the layout fills.
ApplicationOverview ==
    Page([loadAppStatistics |-> ApplicationConfig_loadAppStatistics,
      onGetApplicationDetails |-> ApplicationConfig_onGetApplicationDetails,
      editAppPlan |-> ApplicationConfig_editAppPlan,
      onDeleteApplication |-> ApplicationConfig_onDeleteApplication,
      submitEdit |-> Call("EditAppDialog", applicationApi2.updateApplication, {},
                          ApplicationConfig_onOkEditAppDialog, {}),
      closeEditApp |-> ApplicationConfig_onCloseEditAppDialog],
     [page |-> {"loadAppStatistics", "onGetApplicationDetails"}, EditAppDialog |-> {}],
     ApplicationConfig_overview \cup Offer("EditAppDialog", {"submitEdit", "closeEditApp"}, {}), {})

ApplicationComponents ==
    Page([onGetComponentDefinitions |-> ApplicationConfig_onGetComponentDefinitions,
      getEnvbinding |-> ApplicationConfig_componentDidUpdate,
      onLoadApplicationComponents |-> ApplicationConfig_onLoadApplicationComponents,
      toggle |-> ComponentList_toggle, editComponent |-> ApplicationConfig_editComponent,
      onAddComponent |-> ApplicationConfig_onAddComponent,
      onDeleteComponent |-> ApplicationConfig_onDeleteComponent,
      onDeleteTrait |-> ApplicationConfig_onDeleteTrait,
      onAddTrait |-> ApplicationConfig_onAddTrait,
      newEnv |-> ComponentDialog_loadExpressionEnv("NewComponent"),
      editEnv |-> ComponentDialog_loadExpressionEnv("EditComponent"),
      newOptIn |-> ComponentDialog_setExpressionOptIn("NewComponent", "newEnv"),
      editOptIn |-> ComponentDialog_setExpressionOptIn("EditComponent", "editEnv"),
      onGetEditComponentInfo |-> ComponentDialog_onGetEditComponentInfo,
      newType |-> ComponentDialog_onDetailsComponentDefinition("NewComponent"),
      editType |-> ComponentDialog_onDetailsComponentDefinition("EditComponent"),
      createComponent |-> ComponentDialog_onSubmitCreate,
      updateComponent |-> ComponentDialog_onSubmitEditComponent,
      closeNew |-> ComponentDialog_onClose("NewComponent"),
      closeEdit |-> ComponentDialog_onClose("EditComponent"),
      traitEnv |-> TraitDialog_loadExpressionEnv, traitOptIn |-> TraitDialog_setExpressionOptIn,
      onGetComponentInfo |-> TraitDialog_onGetComponentInfo,
      onGetTraitDefinitions |-> TraitDialog_onGetTraitDefinitions,
      onDetailsTraitDefinition |-> TraitDialog_onDetailsTraitDefinition,
      handleTypeChange |-> TraitDialog_handleTypeChange,
      createTrait |-> TraitDialog_onSubmit(applicationApi1.createTrait),
      updateTrait |-> TraitDialog_onSubmit(applicationApi2.updateTrait),
      closeTrait |-> ApplicationConfig_onClose],
     [page |-> {"onGetComponentDefinitions", "getEnvbinding", "onLoadApplicationComponents"},
      TraitDialog |-> TraitDialog_componentDidMount] @@ ComponentDialog_componentDidMount,
     ApplicationConfig_components \cup ComponentList_rows
         \cup ComponentList_rowActions \cup ComponentDialog_extButtonList \cup ComponentDialog_type
         \cup ComponentDialog_properties \cup TraitDialog_extButtonList \cup TraitDialog_type
         \cup TraitDialog_properties, {})

ApplicationPolicies ==
    Page([onGetPolicyScopes |-> ApplicationConfig_onGetPolicyScopes,
      loadApplicationPolicies |-> ApplicationConfig_loadApplicationPolicies,
      onAddPolicy |-> ApplicationConfig_onAddPolicy, onEditPolicy |-> ApplicationConfig_onEditPolicy,
      onDeletePolicy |-> ApplicationConfig_onDeletePolicy,
      forceDelete |-> Call("ForceDelete", applicationApi1.deletePolicy, {},
                           Run({"loadApplicationPolicies"}) \cup Close({"ForceDelete"}), {}),
      dropForce |-> Act("ForceDelete", Close({"ForceDelete"})),
      loadPolicyDefinitions |-> PolicyDialog_loadPolicyDefinitions,
      newPolicyDetail |-> PolicyDialog_loadPolicyDefinitionDetail("PolicyDialog"),
      editPolicyDetail |-> PolicyDialog_loadPolicyDefinitionDetail("EditPolicy"),
      onSelectPolicy |-> PolicyDialog_onSelectPolicy,
      changePolicyType |-> PolicyDialog_handleTypeChange,
      createPolicy |-> PolicyDialog_onSubmitCreate,
      createWithoutType |-> PolicyDialog_onSubmitWithoutType,
      updatePolicy |-> PolicyDialog_onSubmitUpdate,
      closePolicy |-> Act("PolicyDialog", Close({"PolicyDialog"})),
      closeEditPolicy |-> Act("EditPolicy", Close({"EditPolicy"}))],
     [page |-> {"onGetPolicyScopes", "loadApplicationPolicies"}, ForceDelete |-> {}]
         @@ PolicyDialog_componentDidMount,
     ApplicationConfig_policies \cup PolicyList \cup PolicyDialog_extButtonList \cup PolicyDialog_type
         \cup Offer("ForceDelete", {"forceDelete", "dropForce"}, {}), {})

ApplicationSources ==
    Page([loadSources |-> ApplicationConfig_loadSources,
      addSource |-> ApplicationConfig_openAddIfAsked("SourceDialog"),
      editSource |-> ApplicationConfig_openAddIfAsked("SourceDialog"),
      onDeleteSource |-> ApplicationConfig_onDeleteSource,
      sourceEnv |-> SourceDialog_loadExpressionEnv, sourceOptIn |-> SourceDialog_setExpressionOptIn,
      loadDefinitions |-> SourceDialog_loadDefinitions,
      loadDefinition |-> SourceDialog_loadDefinition,
      changeSourceType |-> SourceDialog_changeType,
      createSource |-> SourceDialog_onSubmit(applicationApi1.createSource),
      updateSource |-> SourceDialog_onSubmit(applicationApi1.updateSource),
      closeSource |-> Act("SourceDialog", Close({"SourceDialog"}))],
     [page |-> {"loadSources"}, SourceDialog |-> SourceDialog_componentDidMount],
     ApplicationConfig_sources \cup SourceList \cup SourceDialog_render \cup SourceDialog_properties, {})

ApplicationTriggers ==
    Page([onGetApplicationTrigger |-> ApplicationConfig_onGetApplicationTrigger,
      onLoadApplicationComponents |-> ApplicationConfig_onLoadApplicationComponents,
      onAddTrigger |-> ApplicationConfig_onAddTrigger, editTrigger |-> ApplicationConfig_onAddTrigger,
      onDeleteTrigger |-> ApplicationConfig_onDeleteTrigger,
      showWebhook |-> TriggerList_showWebhook, closeWebhook |-> TriggerList_closeWebhook,
      loadComponentDetail |-> TriggerList_loadComponentDetail,
      onGetPayloadType |-> TriggerDialog_onGetPayloadType,
      onDetailComponentDefinition |-> TriggerDialog_onDetailComponentDefinition,
      changeType |-> TriggerDialog_changeType,
      changeComponentName |-> TriggerDialog_changeComponentName,
      createTrigger |-> TriggerDialog_onSubmit(applicationApi2.createTrigger),
      updateTrigger |-> TriggerDialog_onSubmit(applicationApi2.updateTrigger),
      closeTrigger |-> ApplicationConfig_onTriggerClose],
     [page |-> {"onGetApplicationTrigger"}, TriggerDialog |-> TriggerDialog_componentDidMount,
      Webhook |-> {"loadComponentDetail"}],
     ApplicationConfig_triggers \cup TriggerList_rows \cup TriggerList_webhook
         \cup TriggerDialog_extButtonList \cup TriggerDialog_render, {})

=============================================================================
