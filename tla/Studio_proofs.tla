---------------------------- MODULE Studio_proofs ---------------------------
(***************************************************************************)
(* The type invariants of the parts that share no state, in the module     *)
(* that TLC checks them in: its steps are steps of one part at a time, so  *)
(* each part's own theorem gives its conjunct.                             *)
(***************************************************************************)
EXTENDS MCStudio, Saving_proofs, Limits_proofs

\* Of each part, a step of the whole is a step or none.
LEMMA StudioStepIsEachs ==
    ASSUME [StudioNext]_studioVars
    PROVE  /\ [ThreadNext]_threadVars /\ [ResumeNext]_resumeVars /\ [QuotaNext]_quotaVars
           /\ [StoreNext]_storeAllVars /\ [AgentNext]_agentVars /\ [EditorNext]_editorVars
<1>1. CASE UNCHANGED studioVars
  BY <1>1 DEF studioVars
<1>2. CASE StudioNext
  <2>1. CASE component = "thread" /\ ThreadNext /\ Others("thread")
    BY <2>1 DEF Others
  <2>2. CASE component = "resume" /\ ResumeNext /\ Others("resume")
    BY <2>2 DEF Others
  <2>3. CASE component = "quota" /\ QuotaNext /\ Others("quota")
    BY <2>3 DEF Others
  <2>4. CASE component = "store" /\ StoreNext /\ Others("store")
    BY <2>4 DEF Others
  <2>5. CASE component = "agent" /\ AgentNext /\ Others("agent")
    BY <2>5 DEF Others
  <2>6. CASE component = "editor" /\ EditorWithinBounds /\ EditorNext /\ Others("editor")
    BY <2>6 DEF Others
  <2> QED
    BY <1>2, <2>1, <2>2, <2>3, <2>4, <2>5, <2>6 DEF StudioNext
<1> QED
  BY <1>1, <1>2

\* By the shape of StudioNext.
LEMMA StudioIsEach ==
    StudioSpec =>
        /\ ThreadSpec /\ ResumeSpec /\ QuotaSpec /\ StoreSpec /\ AgentSpec /\ EditorSpec
<1>1. StudioInit => /\ ThreadInit /\ ResumeInit /\ QuotaInit
                    /\ StoreInit /\ AgentInit /\ EditorInit
  BY DEF StudioInit
<1>2. [StudioNext]_studioVars =>
          /\ [ThreadNext]_threadVars /\ [ResumeNext]_resumeVars /\ [QuotaNext]_quotaVars
          /\ [StoreNext]_storeAllVars /\ [AgentNext]_agentVars /\ [EditorNext]_editorVars
  BY StudioStepIsEachs
<1> QED
  BY <1>1, <1>2, PTL
     DEF StudioSpec, ThreadSpec, ResumeSpec, QuotaSpec, StoreSpec, AgentSpec, EditorSpec

\* Every variable of every part holds what the code keeps in it, for every value of
\* the parts' constants: threads and their requests, logs, reserved uses, the store's
\* rows and locks, the story files and proposals, and the editor's texts.
THEOREM StudioTypesCorrect == StudioSpec => []StudioTypeOK
<1>1. (/\ ThreadTypeOK /\ ResumeTypeOK /\ QuotaTypeOK
       /\ StoreTypeOK /\ AgentTypeOK /\ EditorTypeOK) => StudioTypeOK
  BY DEF StudioTypeOK
<1> QED
  BY <1>1, StudioIsEach, ThreadTypeCorrect, ResumeTypeCorrect, QuotaTypeCorrect,
     StoreTypeCorrect, AgentTypeCorrect, EditorTypeCorrect, PTL
=============================================================================
