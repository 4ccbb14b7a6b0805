------------------------------ MODULE MCStudio ------------------------------
(* The components that share no state, for TLC: a behaviour is one of one  *)
(* of them, the others stay as they begin.                                 *)
EXTENDS ThreadMemory, ResumeLog, AiQuota, Store, StoryAgent, Editor

VARIABLE component

studioVars == <<component, threadVars, resumeVars, quotaVars, storeAllVars, agentVars,
                editorVars>>

Others(name) ==
    /\ name # "thread" => UNCHANGED threadVars
    /\ name # "resume" => UNCHANGED resumeVars
    /\ name # "quota"  => UNCHANGED quotaVars
    /\ name # "store"  => UNCHANGED storeAllVars
    /\ name # "agent"  => UNCHANGED agentVars
    /\ name # "editor" => UNCHANGED editorVars
    /\ UNCHANGED component

StudioInit ==
    /\ component \in {"thread", "resume", "quota", "store", "agent", "editor"}
    /\ ThreadInit /\ ResumeInit /\ QuotaInit /\ StoreInit /\ AgentInit /\ EditorInit
    /\ component # "resume" => logEnabled
    /\ component # "store" => backend = "json"
    /\ component # "agent" => policy = "allow"
    /\ editor.selected = CHOOSE c \in Book : TRUE  \* the chapters are alike

\* The editor goes on until a lapse, past which nothing is claimed of its texts, and
\* until changes and selections together are three, or two with a save under way.
MaxEditorWork == 3
EditorWithinBounds ==
    /\ lapses = {}
    /\ made + Len(loads) + (IF saveQueue = << >> THEN 0 ELSE 1) <= MaxEditorWork

StudioNext ==
    \/ component = "thread" /\ ThreadNext /\ Others("thread")
    \/ component = "resume" /\ ResumeNext /\ Others("resume")
    \/ component = "quota"  /\ QuotaNext /\ Others("quota")
    \/ component = "store"  /\ StoreNext /\ Others("store")
    \/ component = "agent"  /\ AgentNext /\ Others("agent")
    \/ component = "editor" /\ EditorWithinBounds /\ EditorNext /\ Others("editor")

StudioSpec == StudioInit /\ [][StudioNext]_studioVars

\* Every variable of every component holds what the code keeps in it.
StudioTypeOK ==
    /\ ThreadTypeOK /\ ResumeTypeOK /\ QuotaTypeOK
    /\ StoreTypeOK /\ AgentTypeOK /\ EditorTypeOK
=============================================================================
