---------------------------- MODULE PipelinePages ----------------------------
(***************************************************************************)
(* The pages of pipelines: their list, which is a page of its own and a tab of *)
(* a project, with the dialogs that create, clone and run them, and the studio. *)
(***************************************************************************)
EXTENDS LivePages

-----------------------------------------------------------------------------
(* Dialogs of pipelines *)

NewContext_submitContext ==
    Call("NewContext", pipelineApi2.createPipelineContext, {}, Run({"contexts"}) \cup Close({"NewContext"}), {})

\* A context that is edited fills the form.
NewContext_updateContext ==
    Call("NewContext", pipelineApi1.updatePipelineContext, {}, Run({"contexts"}) \cup Close({"NewContext"}), {})

NewContext_render ==
    Offer("NewContext", {"createContext", "updateContext", "cancelContext"}, {})

\* Loading is the trigger: setting it while it is set does nothing.
RunPipeline_loadContexts ==
    Unless("contextLoading",
    Call("RunPipeline", pipelineApi1.listPipelineContexts, {"contextLoading"},
         Show \cup Clear("contextLoading"), Show \cup Clear("contextLoading")))

RunPipeline_onEditPipelineContext == Act("RunPipeline", Open("NewContext"))

RunPipeline_onDeletePipelineContext ==
    Call("RunPipeline", pipelineApi1.deletePipelineContext, {}, Run({"contexts"}), {})

\* The page goes to the run.
RunPipeline_onRunPipeline ==
    Call("RunPipeline", pipelineApi2.runPipeline, {}, Leave, {})

RunPipeline_offers ==
    Offer("RunPipeline", {"editContext", "deleteContext", "run", "closeRun"}, {}) \cup NewContext_render

RunPipeline_handlers ==
    [contexts |-> RunPipeline_loadContexts, editContext |-> RunPipeline_onEditPipelineContext,
     deleteContext |-> RunPipeline_onDeletePipelineContext, run |-> RunPipeline_onRunPipeline,
     createContext |-> NewContext_submitContext, updateContext |-> NewContext_updateContext,
     cancelContext |-> Act("NewContext", Close({"NewContext"})),
     closeRun |-> Act("RunPipeline", Close({"RunPipeline", "NewContext"}))]

ViewRuns_load ==
    Unless("runsLoading",
    Call("ViewRuns", pipelineApi1.loadPipelineRuns, {"runsLoading"},
         Show \cup Clear("runsLoading"), Show \cup Clear("runsLoading")))

ViewRuns_deleteRun ==
    Call("ViewRuns", pipelineApi1.deletePipelineRun, {}, Run({"runs"}), {})

ViewRuns_offers == Offer("ViewRuns", {"deleteRun", "closeRuns"}, {})

\* Only a pipeline that is edited is read.
CreatePipeline_load ==
    Call("CreatePipeline", pipelineApi1.loadPipeline, {}, FillForm, {})

\* The default context is created without waiting for it; the page goes to the studio.
CreatePipeline_onSubmit ==
    Call("CreatePipeline", pipelineApi1.createPipeline, {"createLoading"},
     Clear("createLoading") \cup Run({"addContext"}) \cup Leave, Clear("createLoading"))

CreatePipeline_update ==
    Call("CreatePipeline", pipelineApi1.updatePipeline, {"createLoading"}, Clear("createLoading") \cup Leave,
     Clear("createLoading"))

CreatePipeline_render ==
    Offer("CreatePipeline", {"create", "update"}, {"createLoading"})
    \cup Offer("CreatePipeline", {"closeCreate"}, {})

ClonePipeline_onLoadingPipeline ==
    Call("ClonePipeline", pipelineApi1.loadPipeline, {"cloned"}, FillForm \cup Clear("cloned"), Clear("cloned"))

ClonePipeline_onLoadingPipelineContexts ==
    Call("ClonePipeline", pipelineApi1.listPipelineContexts, {"clonedContexts"}, Clear("clonedContexts"),
     Clear("clonedContexts"))

\* A failed call answers undefined: the catch that clears the spinner is not reached.
ClonePipeline_onSubmit ==
    Call("ClonePipeline", pipelineApi1.createPipeline, {"cloneLoading"},
     Run({"addContext"}) \cup RunPlain({"getPipelines"}) \cup Close({"ClonePipeline"}), {})

\* The form is invalid: the spinner was set before it was validated.
ClonePipeline_invalid == Act("ClonePipeline", Spin("cloneLoading"))

ClonePipeline_render ==
    Offer("ClonePipeline", {"clone", "cloneInvalid"}, {"cloneLoading", "cloned", "clonedContexts"})
    \cup Offer("ClonePipeline", {"closeClone"}, {})

ClonePipeline_handlers ==
    [cloned |-> ClonePipeline_onLoadingPipeline, clonedContexts |-> ClonePipeline_onLoadingPipelineContexts,
     clone |-> ClonePipeline_onSubmit, cloneInvalid |-> ClonePipeline_invalid,
     closeClone |-> Act("ClonePipeline", Close({"ClonePipeline"}))]

Pipelines_search == Act("page", Reload({"getPipelines"}))

Pipelines_SelectSearch == Offer("page", {"search"}, {})

-----------------------------------------------------------------------------
(* The list of pipelines *)

Pipelines_getPipelines ==
    Unless("unresolved", Search("page", pipelineApi1.listPipelines, {"isLoading"}, Show \cup Clear("isLoading"),
                            Show \cup Clear("isLoading")))

\* The list is read without the words that are searched for.
Pipelines_projectChanged == Act("page", RunPlain({"getPipelines"}))

Pipelines_showRuns == Act("page", Open("ViewRuns"))

Pipelines_onRunPipeline == Act("page", Open("RunPipeline"))

Pipelines_onClonePipeline == Act("page", Open("ClonePipeline"))

Pipelines_onDeletePipeline ==
    Call("page", pipelineApi1.deletePipeline, {}, RunPlain({"getPipelines"}), {})

Pipelines_onEditPipeline == Act("page", Open("CreatePipeline"))

\* A pipeline that is created needs nothing read; one that is edited does.
Pipelines_handlers ==
    [getPipelines |-> Pipelines_getPipelines, search |-> Pipelines_search,
     projectChanged |-> Pipelines_projectChanged, showRuns |-> Pipelines_showRuns,
     openRun |-> Pipelines_onRunPipeline, openClone |-> Pipelines_onClonePipeline,
     delete |-> Pipelines_onDeletePipeline, openCreate |-> Pipelines_onEditPipeline,
     load |-> CreatePipeline_load, create |-> CreatePipeline_onSubmit, update |-> CreatePipeline_update,
     closeCreate |-> Act("CreatePipeline", Close({"CreatePipeline"})),
     addContext |-> Call("page", pipelineApi2.createPipelineContext, {}, {}, {}),
     runs |-> ViewRuns_load, deleteRun |-> ViewRuns_deleteRun,
     closeRuns |-> Act("ViewRuns", Close({"ViewRuns"}))]
     @@ RunPipeline_handlers @@ ClonePipeline_handlers

Pipelines_table ==
    Offer("page", {"openRun", "showRuns", "openClone", "openCreate", "delete"}, {})

Pipelines_render ==
    Pipelines_SelectSearch \cup RunPipeline_offers \cup ViewRuns_offers
    \cup CreatePipeline_render \cup ClonePipeline_render

PipelineList ==
    Page([pickProject |-> ProjectPicker({"getPipelines"})] @@ Pipelines_handlers,
     [page |-> {"pickProject"}, RunPipeline |-> {"contexts"}, NewContext |-> {}, ViewRuns |-> {"runs"},
      CreatePipeline |-> {"load"}, ClonePipeline |-> {"cloned", "clonedContexts"}],
     Pipelines_table \cup Pipelines_render \cup Offer("page", {"projectChanged"}, {}), {})

-----------------------------------------------------------------------------
(* The pipelines of a project *)

ProjectPipelines_getPipelines ==
    Search("page", pipelineApi1.listPipelines, {"isLoading"}, Show \cup Clear("isLoading"),
       Show \cup Clear("isLoading"))

ProjectPipelines_open ==
    [showRuns |-> Act("page", Open("ViewRuns")), openRun |-> Act("page", Open("RunPipeline")),
     openClone |-> Act("page", Open("ClonePipeline"))]

ProjectPipelines_onDeletePipeline ==
    Call("page", pipelineApi1.deletePipeline, {}, RunPlain({"getPipelines"}), {})

ProjectPipelines_table ==
    Offer("page", {"openRun", "showRuns", "openClone", "delete"}, {})

ProjectPipelines_render == Offer("page", {"openCreate"}, {}) \cup Pipelines_render

\* Nothing is edited here: the dialog that creates a pipeline reads none.
ProjectPipelines ==
    Page([delete |-> ProjectPipelines_onDeletePipeline, getPipelines |-> ProjectPipelines_getPipelines]
         @@ ProjectPipelines_open @@ Pipelines_handlers,
     [page |-> {"getPipelines"}, RunPipeline |-> {"contexts"}, NewContext |-> {}, ViewRuns |-> {"runs"},
      CreatePipeline |-> {}, ClonePipeline |-> {"cloned", "clonedContexts"}],
     ProjectPipelines_table \cup ProjectPipelines_render, {})

-----------------------------------------------------------------------------
(* The studio of a pipeline *)

\* Without an answer it throws.
PipelineStudio_loadPipeline == Call("page", pipelineApi1.loadPipeline, {}, Show, {})

PipelineStudio_loadWorkflowDefinitions ==
    Call("page", workflowsApi.getWorkflowDefinitions, {}, Show, {})

PipelineStudio_onSave ==
    Call("page", pipelineApi1.updatePipeline, {"saveLoading"}, Run({"pipeline"}) \cup Clear("saveLoading"),
     Clear("saveLoading"))

PipelineStudio_runPipeline == Act("page", Open("RunPipeline"))

PipelineStudio_render ==
    Offer("page", {"save"}, {"saveLoading"}) \cup Offer("page", {"openRun", "openSettings"}, {})

\* What the settings panel applies is saved with the steps.
PipelineStudio_panels ==
    [openSettings |-> Act("page", Open("Settings")), closeSettings |-> Act("Settings", Close({"Settings"}))]

PipelineStudio ==
    Page([pipeline |-> PipelineStudio_loadPipeline, definitions |-> PipelineStudio_loadWorkflowDefinitions,
      save |-> PipelineStudio_onSave, openRun |-> PipelineStudio_runPipeline]
         @@ PipelineStudio_panels @@ RunPipeline_handlers,
     [page |-> {"pipeline", "definitions"}, RunPipeline |-> {"contexts"}, NewContext |-> {},
      Settings |-> {}],
     PipelineStudio_render \cup RunPipeline_offers \cup Offer("Settings", {"closeSettings"}, {}), {})

=============================================================================
