------------------------------- MODULE Editor -------------------------------
(***************************************************************************)
(* The chapter editor of the web front end (App.jsx): the text on the      *)
(* screen, what undo remembers, the loads and saves under way, revisions   *)
(* by the agent waiting for their snapshot, and the server's drafts and    *)
(* edit history.  A chapter is saved one second after a change, on demand, *)
(* and before another is selected; the agent stores texts meanwhile, and   *)
(* the editor shows them once it hears of them.                            *)
(*                                                                         *)
(* A text is known by the chapter it was written for and the moment of its *)
(* last change.  One project.  Left out: splitting, creating and deleting  *)
(* chapters; the skill runner's insertions, which a change of chapter      *)
(* cancels, are changes like Reformat.  An effect runs in the step that    *)
(* changes what it depends on, so that activeDraftKeyRef is always the key *)
(* of the selected chapter.                                                *)
(***************************************************************************)
EXTENDS Naturals, Sequences

CONSTANTS
    Book,           \* the chapters of the project
    NoChapter,
    MaxChanges,     \* bound: changes of texts, by author and agent
    MaxSelections,  \* bound: chapters selected
    MaxSaves        \* bound: saves under way

ASSUME EditorAssumption ==
    /\ NoChapter \notin Book
    /\ {MaxChanges, MaxSelections, MaxSaves} \subseteq Nat

VARIABLES
    onServer,   \* db.drafts of the project
    editHistory,    \* db.editHistory of the project, every text it ever held
    editor,     \* selected, draft, saved (savedDraftRef), loading, timer
    undo,     \* what undo, redo and the list of snapshots bring back
    loads,      \* the requests of the load effect, in order
    saveQueue,  \* saveQueueRef: the saves not over, each with what waits for it
    revision,   \* the agent's change that waits until the text before it is recorded
    restore,    \* lastAiRestore
    news,       \* chapters the agent has changed and the editor has yet to hear of
    refresh,    \* what the last refreshGeneratedArtifacts has read
    lapses,     \* what happened that the editor does not guard against; no step reads it
    made        \* how many changes were made

serverTexts == <<onServer, editHistory>>
revisions == <<revision, restore>>
agentNews == <<news, refresh>>
editorVars == <<serverTexts, editor, undo, loads, saveQueue, revisions, agentNews,
                lapses, made>>

-----------------------------------------------------------------------------
Manuscript == [of : Book, change : 0..MaxChanges]
NoManuscript == [of |-> NoChapter, change |-> 0]

\* next: the chapter to select once it is saved.
Save == [chapter : Book, text : Manuscript, next : Book \cup {NoChapter},
         pc : {"asked", "stored", "failed"}]
Load == [chapter : Book, text : Manuscript \cup {NoManuscript},
         pc : {"asked", "answered", "failed", "over"}]

\* texts: historyRef, past and future, in any order and with what a later change
\* drops; pending: historyPendingRef; snapshots: historySnapshots, and whether the
\* request for them is under way.
Undo == [texts : SUBSET Manuscript, pending : Manuscript \cup {NoManuscript},
           snapshots : SUBSET Manuscript, loading : BOOLEAN]

Revision == [chapter : Book, before : Manuscript, text : Manuscript]
NoRevision == [chapter |-> NoChapter, before |-> NoManuscript, text |-> NoManuscript]

\* The text of a chapter, as read or kept at one moment.
Note == [chapter : Book, text : Manuscript]
NoNote == [chapter |-> NoChapter, text |-> NoManuscript]

\* "unread": the text of the chapter selected could not be loaded; "early": a button
\* changed the text on the screen, or it was kept for RestoreText, before the chapter
\* was loaded; "late": a revision was applied after another chapter was selected.
Lapse == {"unread", "early", "late"}

\* The text of a chapter may be in its history: it is after an undo.
EditorInit ==
    /\ onServer = [c \in Book |-> [of |-> c, change |-> 0]]
    /\ editHistory = [c \in Book |-> {onServer[c]}]
    /\ \E c \in Book :
          /\ editor = [selected |-> c, draft |-> onServer[c], saved |-> onServer[c],
                       loading |-> FALSE, timer |-> FALSE]
          /\ undo = [texts |-> editHistory[c], pending |-> NoManuscript,
                       snapshots |-> editHistory[c], loading |-> FALSE]
    /\ loads = << >>
    /\ saveQueue = << >>
    /\ revision = NoRevision
    /\ restore = NoNote
    /\ news = {}
    /\ refresh = NoNote
    /\ lapses = {}
    /\ made = 0

\* The autosave effect: it runs when chapter, text or loading have changed.
Rearmed(e) == [e EXCEPT !.timer = ~ e.loading /\ e.draft # e.saved]

Shown(text) == [editor EXCEPT !.draft = text, !.saved = text]

\* The draft typed over, of which undo has yet to be told.
Pending == {undo.pending} \ {NoManuscript}

\* rememberDraft, after flushPendingHistory.
Remembered(texts) ==
    [undo EXCEPT !.texts = @ \cup Pending \cup texts, !.pending = NoManuscript]

\* createHistorySnapshot, whose request names the chapter and text of its call: recorded
\* at once, since one that arrives later or never only has fewer texts brought back.
Recorded(c, texts) == [editHistory EXCEPT ![c] = @ \cup texts]

Lapsed(lapse, happened) == lapses \cup (IF happened THEN {lapse} ELSE {})

\* setActiveChapterId, and the effects for another chapter: its text is asked for,
\* undo forgets, and is given the snapshots at hand while no others are awaited: those
\* of the chapter left.
Select(e, c) ==
    IF c \in {e.selected, NoChapter} THEN editor' = e /\ UNCHANGED <<loads, undo>>
    ELSE /\ Len(loads) < MaxSelections
         /\ editor' = Rearmed([e EXCEPT !.selected = c, !.loading = TRUE])
         /\ loads' = Append(loads, [chapter |-> c, text |-> NoManuscript, pc |-> "asked"])
         /\ undo' = [undo EXCEPT !.texts = IF undo.loading THEN {} ELSE undo.snapshots,
                                     !.pending = NoManuscript, !.loading = TRUE]

QueueSave(c, text, next) ==
    /\ Len(saveQueue) < MaxSaves
    /\ saveQueue' = Append(saveQueue,
                        [chapter |-> c, text |-> text, next |-> next, pc |-> "asked"])

Unsaved == editor.draft # editor.saved

\* commitDraftChange, which no button waits to call until the chapter is loaded.
Commit(text) ==
    IF text = editor.draft THEN UNCHANGED <<editHistory, editor, undo, lapses>>
    ELSE /\ editor' = Rearmed([editor EXCEPT !.draft = text])
         /\ undo' = Remembered({editor.draft})
         /\ editHistory' = Recorded(editor.selected, Pending \cup {editor.draft})
         /\ lapses' = Lapsed("early", editor.loading)

-----------------------------------------------------------------------------
(* The author.                                                             *)

\* The text area is disabled while a chapter is loading.
ChangeDraft ==
    /\ ~ editor.loading
    /\ made < MaxChanges
    /\ made' = made + 1
    /\ editor' = Rearmed([editor EXCEPT !.draft.change = made'])
    /\ undo' = [undo EXCEPT !.pending = IF @ = NoManuscript THEN editor.draft ELSE @]
    /\ UNCHANGED <<serverTexts, loads, saveQueue, revisions, agentNews, lapses>>

\* The buttons that clean, format, clear or insert.
Reformat ==
    /\ made < MaxChanges
    /\ made' = made + 1
    /\ Commit([editor.draft EXCEPT !.change = made'])
    /\ UNCHANGED <<onServer, loads, saveQueue, revisions, agentNews>>

\* Undo, redo, and a snapshot chosen from the history.
BringBack(text) ==
    /\ text \in undo.texts \cup Pending
    /\ editor' = Rearmed([editor EXCEPT !.draft = text])
    /\ undo' = Remembered({editor.draft})
    /\ editHistory' = Recorded(editor.selected, Pending)
    /\ lapses' = Lapsed("early", editor.loading \/ undo.loading)
    /\ UNCHANGED <<onServer, loads, saveQueue, revisions, agentNews, made>>

\* The text before the agent's change, for the chapter it was kept for.
RestoreText ==
    /\ restore.chapter = editor.selected
    /\ Commit(restore.text)
    /\ restore' = NoNote
    /\ UNCHANGED <<onServer, loads, saveQueue, revision, agentNews, made>>

SaveDraft ==
    /\ ~ editor.loading /\ Unsaved
    /\ QueueSave(editor.selected, editor.draft, NoChapter)
    /\ UNCHANGED <<serverTexts, editor, undo, loads, revisions, agentNews, lapses, made>>

\* selectChapter waits for the save of what was not saved; while a chapter is
\* loading, saveDraft does nothing.
SelectChapter(c) ==
    /\ c # editor.selected
    /\ IF Unsaved /\ ~ editor.loading
       THEN /\ QueueSave(editor.selected, editor.draft, c)
            /\ UNCHANGED <<editor, loads, undo>>
       ELSE Select(editor, c) /\ UNCHANGED saveQueue
    /\ UNCHANGED <<serverTexts, revisions, agentNews, lapses, made>>

-----------------------------------------------------------------------------
(* Timers and answers.                                                     *)

\* 650 ms after the last keystroke.
RememberTyped ==
    /\ Pending # {}
    /\ undo' = Remembered({})
    /\ editHistory' = Recorded(editor.selected, Pending)
    /\ UNCHANGED <<onServer, editor, loads, saveQueue, revisions, agentNews, lapses, made>>

AutoSave ==
    /\ editor.timer
    /\ editor' = [editor EXCEPT !.timer = FALSE]
    /\ QueueSave(editor.selected, editor.draft, NoChapter)
    /\ UNCHANGED <<serverTexts, undo, loads, revisions, agentNews, lapses, made>>

\* saveChapterContent: the text replaced goes to the history.
Stores(c, text) ==
    /\ onServer' = [onServer EXCEPT ![c] = text]
    /\ editHistory' = Recorded(c, {onServer[c]} \ {text})

\* Saves are sent one after another; each is stored or refused.
ServerSaves ==
    /\ saveQueue # << >> /\ Head(saveQueue).pc = "asked"
    /\ \/ /\ Stores(Head(saveQueue).chapter, Head(saveQueue).text)
          /\ saveQueue' = [saveQueue EXCEPT ![1].pc = "stored"]
       \/ /\ saveQueue' = [saveQueue EXCEPT ![1].pc = "failed"]
          /\ UNCHANGED serverTexts
    /\ UNCHANGED <<editor, undo, loads, revisions, agentNews, lapses, made>>

\* After a refused save the chapter stays selected.
SaveReturns ==
    LET save == Head(saveQueue) IN
    /\ saveQueue # << >> /\ save.pc # "asked"
    /\ saveQueue' = Tail(saveQueue)
    /\ IF save.pc = "failed" THEN UNCHANGED <<editor, loads, undo>>
       ELSE Select(IF save.chapter = editor.selected
                   THEN [editor EXCEPT !.saved = save.text] ELSE editor, save.next)
    /\ UNCHANGED <<serverTexts, revisions, agentNews, lapses, made>>

ServerLoads(l) ==
    /\ loads[l].pc = "asked"
    /\ \/ loads' = [loads EXCEPT ![l].pc = "answered", ![l].text = onServer[loads[l].chapter]]
       \/ loads' = [loads EXCEPT ![l].pc = "failed"]
    /\ UNCHANGED <<serverTexts, editor, undo, saveQueue, revisions, agentNews, lapses, made>>

\* Of an answer for a chapter that is no longer selected, too.
ShowLoad(l) ==
    /\ loads[l].pc \in {"answered", "failed"}
    /\ loads' = [loads EXCEPT ![l].pc = "over", ![l].text = NoManuscript]
    /\ editor' = Rearmed([(IF loads[l].pc = "answered" THEN Shown(loads[l].text) ELSE editor)
                             EXCEPT !.loading = FALSE])
    /\ lapses' = Lapsed("unread", loads[l].pc = "failed")
    /\ UNCHANGED <<serverTexts, undo, saveQueue, revisions, agentNews, made>>

\* Only the last load is still mounted.  A failure leaves the text as it was.
LoadReturns(l) ==
    IF l = Len(loads) THEN ShowLoad(l)
    ELSE /\ loads[l].pc \in {"answered", "failed"}
         /\ loads' = [loads EXCEPT ![l].pc = "over", ![l].text = NoManuscript]
         /\ UNCHANGED <<serverTexts, editor, undo, saveQueue, revisions, agentNews,
                        lapses, made>>

\* The snapshots of the selected chapter, or none if they cannot be read.  An answer
\* from earlier would bring fewer.
HistoryReturns ==
    /\ undo.loading
    /\ \E found \in {editHistory[editor.selected], {}} :
          undo' = [undo EXCEPT !.texts = found, !.snapshots = found, !.loading = FALSE]
    /\ UNCHANGED <<serverTexts, editor, loads, saveQueue, revisions, agentNews, lapses, made>>

-----------------------------------------------------------------------------
(* The agent.                                                              *)

\* applyAssistantRevision, until it waits for the text before the change to be
\* recorded: the run was started from the text on the screen, for this chapter.
BeginRevision ==
    /\ revision = NoRevision
    /\ editor.loading => editor.draft.of = editor.selected
    /\ made < MaxChanges
    /\ made' = made + 1
    /\ revision' = [chapter |-> editor.selected, before |-> editor.draft,
                    text |-> [editor.draft EXCEPT !.change = made']]
    /\ editHistory' \in {editHistory, Recorded(editor.selected, {editor.draft})}
    /\ UNCHANGED <<onServer, editor, undo, loads, saveQueue, restore, agentNews, lapses>>

\* It goes on with the draft and the chapter it began with, whatever is selected now.
ApplyRevision ==
    /\ revision # NoRevision
    /\ revision.before \in editHistory[revision.chapter]
    /\ editor' = Rearmed([editor EXCEPT !.draft = revision.text])
    /\ undo' = Remembered({revision.before})
    /\ editHistory' = Recorded(revision.chapter, Pending \cup {revision.before})
    /\ restore' = [chapter |-> revision.chapter, text |-> revision.before]
    /\ revision' = NoRevision
    /\ lapses' = Lapsed("late", revision.chapter # editor.selected)
    /\ UNCHANGED <<onServer, loads, saveQueue, agentNews, made>>

AbandonRevision ==
    /\ revision # NoRevision
    /\ revision' = NoRevision
    /\ UNCHANGED <<serverTexts, editor, undo, loads, saveQueue, restore, agentNews, lapses,
                   made>>

\* applyStoryArtifacts, of a run of the server's.
AgentStores(c) ==
    /\ made < MaxChanges
    /\ made' = made + 1
    /\ Stores(c, [of |-> c, change |-> made'])
    /\ news' = news \cup {c}
    /\ UNCHANGED <<editor, undo, loads, saveQueue, revisions, refresh, lapses>>

\* refreshGeneratedArtifacts asks for the chapter if it is the selected one ...
HearOfChange(c) ==
    /\ c \in news
    /\ news' = news \ {c}
    /\ refresh' = IF c = editor.selected THEN [chapter |-> c, text |-> onServer[c]] ELSE refresh
    /\ UNCHANGED <<serverTexts, editor, undo, loads, saveQueue, revisions, lapses, made>>

\* ... and shows it if it still is, or is again, whatever the author has typed, which
\* it keeps for RestoreText.
RefreshReturns ==
    /\ refresh # NoNote
    /\ refresh' = NoNote
    /\ IF refresh.chapter = editor.selected
       THEN LET kept == Unsaved /\ editor.draft # refresh.text IN
            /\ editor' = Rearmed(Shown(refresh.text))
            /\ undo' = [undo EXCEPT !.snapshots = editHistory[editor.selected]]
            /\ restore' = IF kept THEN [chapter |-> editor.selected, text |-> editor.draft]
                          ELSE restore
            /\ lapses' = Lapsed("early", kept /\ editor.loading)
       ELSE UNCHANGED <<editor, undo, restore, lapses>>
    /\ UNCHANGED <<serverTexts, loads, saveQueue, revision, news, made>>

RefreshFails ==
    /\ refresh # NoNote
    /\ refresh' = NoNote
    /\ UNCHANGED <<serverTexts, editor, undo, loads, saveQueue, revisions, news, lapses, made>>

-----------------------------------------------------------------------------
EditorNext ==
    \/ ChangeDraft \/ Reformat \/ RestoreText \/ SaveDraft \/ AutoSave
    \/ RememberTyped \/ HistoryReturns
    \/ \E text \in Manuscript : BringBack(text)
    \/ \E c \in Book : SelectChapter(c) \/ AgentStores(c) \/ HearOfChange(c)
    \/ ServerSaves \/ SaveReturns
    \/ \E l \in DOMAIN loads : ServerLoads(l) \/ LoadReturns(l)
    \/ BeginRevision \/ ApplyRevision \/ AbandonRevision
    \/ RefreshReturns \/ RefreshFails

EditorSpec == EditorInit /\ [][EditorNext]_editorVars

-----------------------------------------------------------------------------
(* Properties.                                                             *)

EditorTypeOK ==
    /\ onServer \in [Book -> Manuscript] /\ editHistory \in [Book -> SUBSET Manuscript]
    /\ editor \in [selected : Book, draft : Manuscript, saved : Manuscript,
                   loading : BOOLEAN, timer : BOOLEAN]
    /\ undo \in Undo
    /\ loads \in Seq(Load) /\ saveQueue \in Seq(Save)
    /\ revision \in Revision \cup {NoRevision} /\ restore \in Note \cup {NoNote}
    /\ news \subseteq Book /\ refresh \in Note \cup {NoNote}
    /\ lapses \subseteq Lapse /\ made \in 0..MaxChanges

\* The text of one chapter is never stored as another's ("chapter texts and edit
\* history are kept separately", README.md:25).
TextStaysInItsChapter == \A c \in Book : onServer[c].of = c

\* Nor is it, and nor does one chapter's history hold a text of another, unless one
\* of the lapses happened: not by a save still under way when the chapter changed,
\* the timers of a chapter left, an overtaken load or refresh, an undo, a revision or
\* a text brought back from before one.
TextsStayUnlessLapsed ==
    lapses = {} => /\ TextStaysInItsChapter
                   /\ \A c \in Book : \A text \in editHistory[c] : text.of = c
=============================================================================
