----------------------------- MODULE StoryAgent -----------------------------
(***************************************************************************)
(* One run of the story agent (runRuntime, agent-runtime.ts) over the      *)
(* files of a work: the model is called, the tools it calls run side by    *)
(* side in a batch, and so on until it answers without tools, asks the     *)
(* author or submits; then the prompts that repair a truncated or an       *)
(* incomplete run, and what the executor does with the result.  The author *)
(* saves chapters in the editor meanwhile, and approves what was proposed. *)
(*                                                                         *)
(* A text is the set of its passages; the empty text is no text.  A model  *)
(* call repeated after a failure that showed nothing is one call here.     *)
(* The runtime's abort on a question or a submission reaches the loop      *)
(* before the batch ends, or only in the model call after it, which fails. *)
(***************************************************************************)
EXTENDS Naturals, FiniteSets

CONSTANTS
    Files, Chapters,    \* chapters have a history of versions, ideas have not
    LoadedFiles,        \* those the prompt carries (buildStoryFiles)
    Passages, Middle,   \* of every file, and those beyond the prompt's limit
    MaxToolCalls,       \* bound: tool calls the model makes
    Saves,              \* saves of the author, each made once
    BatchLimit,         \* tool calls of one model call
    RequiredFiles,      \* values of storyFileMutationRequirement
    MaxRecoveries,      \* MAX_OUTPUT_LIMIT_RECOVERIES
    NoFile

ASSUME StoryAgentAssumption ==
    /\ IsFiniteSet(Files) /\ Chapters \subseteq Files /\ NoFile \notin Files
    /\ Passages # {}
    /\ RequiredFiles \subseteq Nat /\ MaxRecoveries \in Nat

VARIABLES
    policy,             \* tool_policy.mutateStoryData
    required,           \* requiredStoryFiles
    drafts,             \* the texts stored: db.drafts, ideas
    history,            \* db.editHistory: earlier versions
    saves,              \* history: the chapter a save was for
    workspace,          \* files: the text the run has of each
    changes,            \* written(): the files the run has written
    toolCalls,
    agentRun,
    proposal,           \* task.pendingArtifacts
    applied,            \* task.artifactApplication
    standing            \* history: whose version is to stand under "propose"

agentRunVars == <<workspace, changes, toolCalls, agentRun>>
agentVars ==
    <<policy, required, drafts, history, saves, agentRunVars, proposal, applied, standing>>

-----------------------------------------------------------------------------
ToolCalls == 1..MaxToolCalls    \* in the order the model makes them

Text == SUBSET (Passages \cup ToolCalls \cup Saves)
Texts == [Files -> Text]
NoTexts == [f \in Files |-> {}]

\* contextExcerpt: the head and the tail of a long text.
Excerpt(text) == text \ Middle

Tools == {"read", "write", "edit", "ask", "submit"}
ToolCall ==
    [ pc : {"unused", "new", "loading", "read", "stored", "done"},
      tool : Tools, file : Files \cup {NoFile}, text : Text ]
Unused == [pc |-> "unused", tool |-> "read", file |-> NoFile, text |-> {}]

\* phase: the model answers, its tools run, the prompt has returned, the end.
AgentRun ==
    [ phase : {"model", "tools", "settled", "completed", "needs_input", "failed"},
      stage : {"first", "validation", "last"},
      question : BOOLEAN, submitted : BOOLEAN, artifacts : Texts,
      error : BOOLEAN, length : BOOLEAN, stopped : BOOLEAN,
      recoveries : Nat, validations : Nat, before : Nat ]

AgentInit ==
    /\ policy \in {"allow", "propose"}
    /\ required \in RequiredFiles
    /\ drafts = [f \in Files |-> Passages]
    /\ history = [f \in Chapters |-> {}]
    /\ saves = [a \in Saves |-> NoFile]
    /\ workspace = [f \in Files |-> IF f \in LoadedFiles THEN Excerpt(drafts[f]) ELSE {}]
    /\ changes = {}
    /\ toolCalls = [c \in ToolCalls |-> Unused]
    /\ agentRun =
          [phase |-> "model", stage |-> "first", question |-> FALSE, submitted |-> FALSE,
           artifacts |-> NoTexts, error |-> FALSE, length |-> FALSE, stopped |-> FALSE,
           recoveries |-> 0, validations |-> 0, before |-> 0]
    /\ proposal = NoTexts
    /\ applied = FALSE
    /\ standing = [f \in Files |-> Passages]

\* applyStoryArtifacts, its documents: an empty text is no document.  A chapter's
\* earlier version goes into its history.
DocumentsOver(texts, previous) ==
    /\ drafts' = [f \in Files |-> IF texts[f] = {} THEN drafts[f] ELSE texts[f]]
    /\ history' = [f \in Chapters |->
          IF texts[f] \in {{}, previous[f]} THEN history[f]
          ELSE history[f] \cup ({previous[f]} \ {{}})]

\* Taking the version the run knows of for the earlier one.
DocumentsOverKnown(texts) == DocumentsOver(texts, workspace)

ApplyDocuments(texts) == DocumentsOver(texts, drafts)

One(f, text) == [NoTexts EXCEPT ![f] = text]
Unstored == UNCHANGED <<drafts, history>>

-----------------------------------------------------------------------------
(* The model.                                                              *)

\* It calls tools.
CallTools ==
    /\ agentRun.phase = "model"
    /\ ~ agentRun.stopped
    /\ \E n \in 1..BatchLimit :
          LET made  == Cardinality({c \in ToolCalls : toolCalls[c].pc # "unused"})
              batch == made + 1 .. made + n IN
          /\ batch \subseteq ToolCalls
          /\ \E tool \in [batch -> Tools], target \in [batch -> Files] :
                toolCalls' = [c \in ToolCalls |->
                    IF c \in batch
                    THEN [pc |-> "new", tool |-> tool[c], text |-> {},
                          file |-> IF tool[c] = "ask" THEN NoFile ELSE target[c]]
                    ELSE toolCalls[c]]
    /\ agentRun' = [agentRun EXCEPT !.phase = "tools"]
    /\ UNCHANGED <<policy, required, drafts, history, saves, workspace, changes,
                   proposal, applied, standing>>

\* It answers without tools, complete or cut off, or fails; it fails if the run
\* was stopped.
Answer ==
    /\ agentRun.phase = "model"
    /\ \E how \in {"complete", "cut_off", "failed"} :
          /\ agentRun.stopped => how = "failed"
          /\ agentRun' = [agentRun EXCEPT !.phase = "settled", !.length = how = "cut_off",
                                !.error = how = "failed"]
    /\ UNCHANGED <<policy, required, drafts, history, saves, workspace, changes, toolCalls,
                   proposal, applied, standing>>

-----------------------------------------------------------------------------
(* The tools.  Those of a batch are all of concurrency "shared".           *)

Goto(c, pc) == toolCalls' = [toolCalls EXCEPT ![c].pc = pc]
ToolsUnchanged == UNCHANGED <<policy, required, saves, proposal, applied, standing>>

AfterRead(c) == IF toolCalls[c].tool = "read" THEN "done" ELSE "read"

\* storyFiles.read: what the workspace has, or what the store has by now.
ReadStoryFile(c) ==
    LET f == toolCalls[c].file
        loads == workspace[f] = {} IN
    /\ toolCalls[c].pc = "new" /\ toolCalls[c].tool \in {"read", "edit"}
    /\ toolCalls' = [toolCalls EXCEPT ![c].text = IF loads THEN drafts[f] ELSE workspace[f],
                              ![c].pc = IF loads THEN "loading" ELSE AfterRead(c)]
    /\ Unstored /\ ToolsUnchanged /\ UNCHANGED <<workspace, changes, agentRun>>

Loaded(c) ==
    /\ toolCalls[c].pc = "loading"
    /\ workspace' = [workspace EXCEPT ![toolCalls[c].file] = toolCalls[c].text]
    /\ Goto(c, AfterRead(c))
    /\ Unstored /\ ToolsUnchanged /\ UNCHANGED <<changes, agentRun>>

\* An edit puts its passage into what it has read, a write puts it for everything.
NewText(c) == toolCalls[c].text \cup {c}

\* persistStoryFile, one update of the store; under "propose" nothing is persisted.
Persist(c) ==
    /\ \/ toolCalls[c].pc = "read"
       \/ toolCalls[c].pc = "new" /\ toolCalls[c].tool = "write"
    /\ Goto(c, "stored")
    /\ IF policy = "allow" THEN ApplyDocuments(One(toolCalls[c].file, NewText(c)))
       ELSE Unstored
    /\ ToolsUnchanged /\ UNCHANGED <<workspace, changes, agentRun>>

\* storyFiles.write
Keep(c) ==
    /\ toolCalls[c].pc = "stored"
    /\ Goto(c, "done")
    /\ workspace' = [workspace EXCEPT ![toolCalls[c].file] = NewText(c)]
    /\ changes' = changes \cup {toolCalls[c].file}
    /\ Unstored /\ ToolsUnchanged /\ UNCHANGED agentRun

\* request_user_input is refused once files are written or a result is submitted,
\* and when every question was answered before.
Ask(c) ==
    /\ toolCalls[c].pc = "new" /\ toolCalls[c].tool = "ask"
    /\ Goto(c, "done")
    /\ \E fresh \in BOOLEAN :
          agentRun' = [agentRun EXCEPT
              !.question = @ \/ (fresh /\ changes = {} /\ ~ agentRun.submitted)]
    /\ Unstored /\ ToolsUnchanged /\ UNCHANGED <<workspace, changes>>

\* submit_story_result, with a document among its artifacts or without any.
Submit(c) ==
    /\ toolCalls[c].pc = "new" /\ toolCalls[c].tool = "submit"
    /\ Goto(c, "done")
    /\ \E artifacts \in {NoTexts, One(toolCalls[c].file, {c})} :
          agentRun' = [agentRun EXCEPT !.submitted = TRUE, !.artifacts = artifacts]
    /\ Unstored /\ ToolsUnchanged /\ UNCHANGED <<workspace, changes>>

\* A load or an update fails; or the call has not begun when the run is aborted.
FailCall(c) ==
    /\ \/ toolCalls[c].pc \in {"loading", "read"}
       \/ toolCalls[c].pc = "new" /\ toolCalls[c].tool = "write"
       \/ /\ toolCalls[c].pc = "new"
          /\ agentRun.stopped \/ agentRun.question \/ agentRun.submitted
    /\ Goto(c, "done")
    /\ Unstored /\ ToolsUnchanged /\ UNCHANGED <<workspace, changes, agentRun>>

\* The batch is over when all its calls are.  After a question or a submission the
\* model is not called again, or the call is aborted.
EndBatch ==
    /\ agentRun.phase = "tools"
    /\ \A c \in ToolCalls : toolCalls[c].pc \in {"unused", "done"}
    /\ \E late \in BOOLEAN :
          agentRun' = IF agentRun.question \/ agentRun.submitted
                 THEN [agentRun EXCEPT !.phase = "settled", !.length = FALSE, !.error = late]
                 ELSE [agentRun EXCEPT !.phase = "model"]
    /\ Unstored /\ ToolsUnchanged /\ UNCHANGED <<workspace, changes, toolCalls>>

-----------------------------------------------------------------------------
(* runRuntime, once a prompt has returned.                                 *)

Prompt(changed) ==
    /\ agentRun.phase = "settled" /\ ~ agentRun.stopped
    /\ agentRun' = [changed EXCEPT !.phase = "model", !.error = FALSE, !.length = FALSE]
    /\ UNCHANGED <<policy, required, drafts, history, saves, workspace, changes, toolCalls,
                   proposal, applied, standing>>

Truncated ==
    /\ agentRun.length /\ agentRun.recoveries < MaxRecoveries
    /\ ~ agentRun.question /\ ~ agentRun.submitted

\* Files are missing, the question set aside.
FilesMissing ==
    /\ agentRun.stage # "last"
    /\ Cardinality(changes) < required
    /\ agentRun.validations < required
    /\ agentRun.stage = "validation" => Cardinality(changes) > agentRun.before

\* The loop of the validation: it gives up when a prompt has brought no file.
Incomplete == FilesMissing /\ ~ agentRun.question

\* recoverOutputLimit
RecoverOutput ==
    /\ Truncated
    /\ agentRun.stage = "first" \/ ~ Incomplete
    /\ Prompt([agentRun EXCEPT !.recoveries = @ + 1,
                          !.stage = IF @ = "first" THEN "first" ELSE "last"])

\* The submission is taken back: it came before the files.
Validate ==
    /\ Incomplete
    /\ agentRun.stage = "first" => ~ Truncated
    /\ Prompt([agentRun EXCEPT !.validations = @ + 1, !.before = Cardinality(changes),
                          !.stage = "validation", !.submitted = FALSE,
                          !.artifacts = NoTexts])

\* mergeStoryFileArtifacts
Result == [f \in Files |-> IF f \in changes THEN workspace[f] ELSE agentRun.artifacts[f]]

\* The executor stores the result, or keeps it for the author's approval; a task
\* that asks, or has failed, stores nothing more.
FinishAgentRun ==
    /\ agentRun.phase = "settled"
    /\ agentRun.stopped \/ (~ Truncated /\ ~ Incomplete)
    /\ LET failed == agentRun.stopped \/ agentRun.error
                     \/ (agentRun.length /\ ~ agentRun.question /\ ~ agentRun.submitted)
           outcome == IF failed THEN "failed"
                      ELSE IF agentRun.question THEN "needs_input" ELSE "completed" IN
       /\ agentRun' = [agentRun EXCEPT !.phase = outcome]
       /\ IF outcome = "completed" /\ policy = "allow"
          THEN ApplyDocuments(Result) /\ applied' = (Result # NoTexts) /\ UNCHANGED proposal
          ELSE /\ Unstored /\ UNCHANGED applied
               /\ proposal' = IF outcome = "completed" THEN Result ELSE proposal
    /\ UNCHANGED <<policy, required, saves, workspace, changes, toolCalls, standing>>

-----------------------------------------------------------------------------
(* The author.                                                             *)

\* saveChapterContent: the editor saves the whole text it has.
SaveChapter(a, f) ==
    LET content == Passages \cup {a} IN
    /\ saves[a] = NoFile
    /\ saves' = [saves EXCEPT ![a] = f]
    /\ standing' = [standing EXCEPT ![f] = content]
    /\ drafts' = [drafts EXCEPT ![f] = content]
    /\ history' = [history EXCEPT ![f] = IF drafts[f] \in {{}, content} THEN @
                                          ELSE @ \cup {drafts[f]}]
    /\ UNCHANGED <<policy, required, agentRunVars, proposal, applied>>

ApplyProposalAnd(left) ==
    /\ proposal # NoTexts
    /\ ApplyDocuments(proposal)
    /\ applied' = TRUE
    /\ standing' = [f \in Files |->
          IF applied \/ proposal[f] = {} THEN standing[f] ELSE proposal[f]]
    /\ proposal' = left
    /\ UNCHANGED <<policy, required, saves, agentRunVars>>

\* A proposal that can be applied again.
ApplyProposalLeavingIt == ApplyProposalAnd(proposal)

\* POST /api/ai/tasks/:taskId/artifacts/apply
ApplyProposal == ApplyProposalAnd(NoTexts)

\* The author stops the run: its signal is aborted; tools that run go on.
StopAgentRun ==
    /\ agentRun.phase \in {"model", "tools"}
    /\ ~ agentRun.stopped
    /\ agentRun' = [agentRun EXCEPT !.stopped = TRUE]
    /\ Unstored /\ ToolsUnchanged /\ UNCHANGED <<workspace, changes, toolCalls>>

-----------------------------------------------------------------------------
AgentNext ==
    \/ CallTools \/ Answer \/ EndBatch
    \/ \E c \in ToolCalls :
          \/ ReadStoryFile(c) \/ Loaded(c) \/ Persist(c) \/ Keep(c)
          \/ Ask(c) \/ Submit(c) \/ FailCall(c)
    \/ RecoverOutput \/ Validate \/ FinishAgentRun
    \/ \E a \in Saves, f \in Chapters : SaveChapter(a, f)
    \/ ApplyProposal \/ StopAgentRun

AgentSpec == AgentInit /\ [][AgentNext]_agentVars

-----------------------------------------------------------------------------
(* Properties.                                                             *)

\* Every variable holds what the code keeps in it, and the repairs keep to their
\* budgets.
AgentTypeOK ==
    /\ policy \in {"allow", "propose"} /\ required \in RequiredFiles
    /\ {drafts, workspace, proposal} \subseteq Texts
    /\ \A f \in Chapters : history[f] \subseteq Text
    /\ changes \subseteq Files
    /\ \A c \in ToolCalls : toolCalls[c] \in ToolCall
    /\ agentRun.recoveries \in 0..MaxRecoveries
    /\ agentRun.validations \in 0..required

\* No version of a chapter the author wrote is ever lost to the agent: whatever its
\* tools, its result or an approved proposal put in its place, it is still the
\* chapter's text or in its history.
AuthorTextIsKept ==
    \A f \in Chapters :
        LET kept == history[f] \cup {drafts[f]} IN
        /\ Passages \in kept
        /\ \A a \in Saves : saves[a] = f => Passages \cup {a} \in kept

\* Once the author has been asked, the run calls no other tool: not for a truncated
\* answer, and not for files that are still missing.
NothingAfterTheQuestion ==
    [][agentRun.question =>
          \A c \in ToolCalls : toolCalls[c].pc = "unused" => toolCalls'[c].pc = "unused"
      ]_agentVars

\* A proposal changes nothing until it is approved, and is applied once: the text
\* that stands is the author's last save, or what was approved after it.
ProposalAppliedOnce == policy = "propose" => drafts = standing

\* An edit leaves the rest of the file as it was: every passage stored before it is
\* still there after it.
EditKeepsTheRest ==
    [][\A c \in ToolCalls :
          LET call == toolCalls[c] IN
          call.tool = "edit" /\ call.pc = "read" /\ toolCalls'[c].pc = "stored"
          => drafts[call.file] \subseteq drafts'[call.file]
      ]_agentVars
=============================================================================
