------------------------------ MODULE MemoryTabs ------------------------------
(***************************************************************************)
(* The memory of the assistant as the clients edit it: the tab of the web  *)
(* client (pages/settings/MemoryTab.tsx) and that of the desktop           *)
(* (screens/settings/MemoryTab.tsx), one of them per behaviour.  Both list *)
(* the entries, open one in an editor, and save or delete with requests    *)
(* that overlap; other clients delete entries too.                         *)
(*                                                                         *)
(* All that is kept of a text is which entry it was written for; a name,   *)
(* without which there is no saving, may be typed at any time.  The search *)
(* and the kinds of entries, which narrow the list, are left out.          *)
(***************************************************************************)
EXTENDS Naturals, FiniteSets

CONSTANTS Slugs,      \* names of entries, as the backend orders them
          NoSlug,     \* stands for null, and for the text of no entry
          MemoryCalls \* bound: requests at one time

ASSUME MemoryAssumption == Slugs \subseteq Nat /\ NoSlug \in Nat \ Slugs

VARIABLES meClient,   \* which tab it is
          meServer,   \* slug -> the entry its text was written for
          meEntries,  \* entries, as of the list shown
          meLoading,  \* loading
          meSaving,   \* saving
          meEditor,   \* editorMode; draft # null and draft.slug of the desktop
          meText,     \* the entry the draft was opened from
          meSelected, \* selectedSlug; draft.slug of the desktop
          meCalls,    \* call -> the request it is, and what its flow does next
          meMissed    \* history: a list missed the entry that was open in the editor

meList    == <<meEntries, meLoading>>
meDraft   == <<meEditor, meText>>
meVars    == <<meClient, meServer, meList, meSaving, meDraft, meSelected, meCalls, meMissed>>

MaybeSlug == Slugs \cup {NoSlug}
Texts     == [Slugs -> MaybeSlug]

\* op is the handler, at where it is: its change was sent, done or failed;
\* its list is asked for, answered or failed.
MemoryCall == [op : {"none", "refresh", "create", "edit", "delete", "open"},
               at : {"nothing", "sent", "done", "failed", "listing", "listed", "unlisted"},
               slug : MaybeSlug, text : MaybeSlug, closes : BOOLEAN, list : Texts]

MemoryTypeOK ==
    /\ meClient \in {"web", "desktop"}
    /\ meServer \in Texts
    /\ meEntries \in Texts
    /\ meLoading \in BOOLEAN
    /\ meSaving \in BOOLEAN
    /\ meEditor \in {"none", "create", "edit"}
    /\ meText \in MaybeSlug
    /\ meSelected \in MaybeSlug
    /\ meCalls \in [MemoryCalls -> MemoryCall]
    /\ meMissed \in BOOLEAN

Empty        == [s \in Slugs |-> NoSlug]
NoMemoryCall == [op |-> "none", at |-> "nothing", slug |-> NoSlug, text |-> NoSlug, closes |-> FALSE, list |-> Empty]
Listing      == [NoMemoryCall EXCEPT !.op = "refresh", !.at = "listing"]

In(list)  == {s \in Slugs : list[s] # NoSlug}
First(S)  == IF S = {} THEN NoSlug ELSE CHOOSE s \in S : \A t \in S : s <= t

MemoryPosts(c, call) == meCalls[c] = NoMemoryCall /\ meCalls' = [meCalls EXCEPT ![c] = call]
Moves(c, at)   == meCalls' = [meCalls EXCEPT ![c].at = at]
Done(c)        == meCalls' = [meCalls EXCEPT ![c] = NoMemoryCall]
\* A handler goes on with load().
ThenLists(c)   == meCalls' = [meCalls EXCEPT ![c].at = "listing"] /\ meLoading' = TRUE

MemoryOpens ==
    /\ meClient \in {"web", "desktop"}
    /\ meServer = [s \in Slugs |-> s]
    /\ meEntries = Empty
    /\ meLoading = TRUE
    /\ meSaving = FALSE
    /\ meEditor = "none" /\ meText = NoSlug
    /\ meSelected = NoSlug
    /\ meMissed = FALSE

MemoryInit ==
    /\ MemoryOpens
    /\ \E c \in MemoryCalls : meCalls = [[d \in MemoryCalls |-> NoMemoryCall] EXCEPT ![c] = Listing]

-----------------------------------------------------------------------------
(* The backend (external), and the other clients of it.                    *)

\* An entry that is not there can be neither read, changed nor deleted; a
\* new one takes a name that is free.
Changed(call, s) == CASE call.op = "delete" -> [meServer EXCEPT ![s] = NoSlug]
                      [] call.op = "create" -> [meServer EXCEPT ![s] = s]
                      [] call.op = "edit"   -> [meServer EXCEPT ![s] = call.text]
                      [] OTHER              -> meServer

MemoryAnswered(c, at, slug, text) ==
    meCalls' = [meCalls EXCEPT ![c].at = at, ![c].slug = slug, ![c].text = text]

MemoryHandles(c) ==
    /\ meCalls[c].at = "sent"
    /\ UNCHANGED <<meClient, meList, meSaving, meDraft, meSelected, meMissed>>
    /\ \/ \E s \in Slugs :
             /\ IF meCalls[c].op = "create" THEN s \notin In(meServer)
                                            ELSE s = meCalls[c].slug /\ s \in In(meServer)
             /\ meServer' = Changed(meCalls[c], s)
             /\ \/ MemoryAnswered(c, "done", s, IF meCalls[c].op = "open" THEN meServer[s] ELSE NoSlug)
                \/ meCalls[c].op # "open" /\ MemoryAnswered(c, "failed", NoSlug, NoSlug)
       \/ /\ IF meCalls[c].op = "open" THEN Moves(c, "failed") ELSE MemoryAnswered(c, "failed", NoSlug, NoSlug)
          /\ UNCHANGED meServer

MemoryLists(c) ==
    /\ meCalls[c].at = "listing"
    /\ UNCHANGED <<meClient, meServer, meList, meSaving, meDraft, meSelected, meMissed>>
    /\ \/ meCalls' = [meCalls EXCEPT ![c].at = "listed", ![c].list = meServer]
       \/ Moves(c, "unlisted")

OthersDelete(s) ==
    /\ s \in In(meServer)
    /\ meServer' = [meServer EXCEPT ![s] = NoSlug]
    /\ UNCHANGED <<meClient, meList, meSaving, meDraft, meSelected, meCalls, meMissed>>

-----------------------------------------------------------------------------
(* The tab of the web client.                                              *)

WebMemory == meClient = "web"

\* The entry that is shown, and that the buttons are about.
ShownEntry == IF meSelected \in In(meEntries) THEN meSelected ELSE First(In(meEntries))

EditorCloses == meEditor' = "none" /\ meText' = NoSlug

\* The entry selected stays selected while it is listed.
Reselects(list) == IF meSelected \in In(list) THEN meSelected ELSE First(In(list))

Misses(list) == meMissed' = (meMissed \/ (meEditor = "edit" /\ meText \notin In(list)))

WebLoad(c) ==
    /\ WebMemory /\ MemoryPosts(c, Listing)
    /\ meEditor = "none"
    /\ meLoading' = TRUE
    /\ UNCHANGED <<meClient, meServer, meEntries, meSaving, meDraft, meSelected, meMissed>>

\* load() is answered or not, and the handler that called it goes on.
WebLoaded(c) ==
    LET call == meCalls[c]
    IN  /\ WebMemory /\ call.at \in {"listed", "unlisted"}
        /\ Done(c)
        /\ meLoading' = FALSE
        /\ IF call.at = "listed"
           THEN meEntries' = call.list /\ Misses(call.list)
           ELSE UNCHANGED <<meEntries, meMissed>>
        /\ meSelected' = IF call.op = "create" THEN call.slug
                         ELSE IF call.at = "listed" THEN Reselects(call.list)
                         ELSE meSelected
        /\ meSaving' = (meSaving /\ call.op = "refresh")
        /\ IF call.op \in {"create", "edit"} THEN EditorCloses ELSE UNCHANGED meDraft
        /\ UNCHANGED <<meClient, meServer>>

\* What the tab offers behind its editor, which covers it.
WebSelect(s) ==
    /\ WebMemory /\ meEditor = "none" /\ ~meLoading /\ s \in In(meEntries)
    /\ meSelected' = s
    /\ UNCHANGED <<meClient, meServer, meList, meSaving, meDraft, meCalls, meMissed>>

WebOpenCreate ==
    /\ WebMemory /\ meEditor = "none"
    /\ meEditor' = "create" /\ meText' = NoSlug
    /\ UNCHANGED <<meClient, meServer, meList, meSaving, meSelected, meCalls, meMissed>>

WebOpenEdit ==
    /\ WebMemory /\ meEditor = "none" /\ ShownEntry # NoSlug
    /\ meEditor' = "edit" /\ meText' = meEntries[ShownEntry]
    /\ meSelected' = ShownEntry
    /\ UNCHANGED <<meClient, meServer, meList, meSaving, meCalls, meMissed>>

WebDeleteEntry(c) ==
    /\ WebMemory /\ meEditor = "none" /\ ~meSaving /\ ShownEntry # NoSlug
    /\ MemoryPosts(c, [NoMemoryCall EXCEPT !.op = "delete", !.at = "sent", !.slug = ShownEntry])
    /\ meSaving' = TRUE
    /\ UNCHANGED <<meClient, meServer, meList, meDraft, meSelected, meMissed>>

\* What the editor offers: Cancel, and Save once there is a name.
EditorCancelled ==
    /\ WebMemory /\ meEditor # "none"
    /\ EditorCloses
    /\ UNCHANGED <<meClient, meServer, meList, meSaving, meSelected, meCalls, meMissed>>

\* Save changes the entry that is selected now; with none the editor closes.
WebSave(c) ==
    /\ WebMemory /\ meEditor # "none" /\ ~meSaving
    /\ IF meEditor = "edit" /\ ShownEntry = NoSlug
       THEN EditorCloses /\ UNCHANGED <<meCalls, meSaving>>
       ELSE /\ MemoryPosts(c, [NoMemoryCall EXCEPT !.op = meEditor, !.at = "sent", !.text = meText,
                                       !.slug = IF meEditor = "edit" THEN ShownEntry ELSE NoSlug])
            /\ meSaving' = TRUE
            /\ UNCHANGED meDraft
    /\ UNCHANGED <<meClient, meServer, meList, meSelected, meMissed>>

WebChanged(c) ==
    /\ WebMemory /\ meCalls[c].at \in {"done", "failed"}
    /\ IF meCalls[c].at = "done"
       THEN ThenLists(c) /\ UNCHANGED meSaving
       ELSE Done(c) /\ meSaving' = FALSE /\ UNCHANGED meLoading
    /\ UNCHANGED <<meClient, meServer, meEntries, meDraft, meSelected, meMissed>>

-----------------------------------------------------------------------------
(* The tab of the desktop, whose editor is beside the list.                *)

DesktopMemory == meClient = "desktop"

\* load() has no button: it is called on mount, and by what follows a change.
DesktopLoaded(c) ==
    LET call == meCalls[c]
    IN  /\ DesktopMemory /\ call.at \in {"listed", "unlisted"}
        /\ Done(c)
        /\ meLoading' = FALSE
        /\ meEntries' = IF call.at = "listed" THEN call.list ELSE meEntries
        /\ meSaving' = (meSaving /\ call.op \notin {"create", "edit"})
        /\ UNCHANGED <<meClient, meServer, meDraft, meSelected, meMissed>>

\* open() reads the whole entry and falls back to the one listed.
DesktopOpen(c, s) ==
    /\ DesktopMemory /\ ~meLoading /\ s \in In(meEntries)
    /\ MemoryPosts(c, [NoMemoryCall EXCEPT !.op = "open", !.at = "sent", !.slug = s, !.text = meEntries[s]])
    /\ UNCHANGED <<meClient, meServer, meList, meSaving, meDraft, meSelected, meMissed>>

DesktopOpened(c) ==
    /\ DesktopMemory /\ meCalls[c].op = "open" /\ meCalls[c].at \in {"done", "failed"}
    /\ Done(c)
    /\ meEditor' = "edit" /\ meText' = meCalls[c].text
    /\ meSelected' = meCalls[c].slug
    /\ UNCHANGED <<meClient, meServer, meList, meSaving, meMissed>>

DesktopSave(c) ==
    /\ DesktopMemory /\ meEditor # "none" /\ ~meSaving
    /\ MemoryPosts(c, [NoMemoryCall EXCEPT !.op = meEditor, !.at = "sent", !.slug = meSelected, !.text = meText])
    /\ meSaving' = TRUE
    /\ UNCHANGED <<meClient, meServer, meList, meDraft, meSelected, meMissed>>

\* setDraft(null)
DraftGoes == EditorCloses /\ meSelected' = NoSlug

DesktopSaved(c) ==
    /\ DesktopMemory /\ meCalls[c].op \in {"create", "edit"} /\ meCalls[c].at \in {"done", "failed"}
    /\ IF meCalls[c].at = "done"
       THEN ThenLists(c) /\ DraftGoes /\ UNCHANGED meSaving
       ELSE Done(c) /\ meSaving' = FALSE /\ UNCHANGED <<meDraft, meSelected, meLoading>>
    /\ UNCHANGED <<meClient, meServer, meEntries, meMissed>>

DesktopRemove(c, s) ==
    /\ DesktopMemory /\ ~meLoading /\ s \in In(meEntries)
    /\ MemoryPosts(c, [NoMemoryCall EXCEPT !.op = "delete", !.at = "sent", !.slug = s,
                               !.closes = (meEditor # "none" /\ meSelected = s)])
    /\ UNCHANGED <<meClient, meServer, meList, meSaving, meDraft, meSelected, meMissed>>

DesktopRemoved(c) ==
    /\ DesktopMemory /\ meCalls[c].op = "delete" /\ meCalls[c].at \in {"done", "failed"}
    /\ IF meCalls[c].at = "done"
       THEN /\ ThenLists(c)
            /\ IF meCalls[c].closes THEN DraftGoes ELSE UNCHANGED <<meDraft, meSelected>>
       ELSE Done(c) /\ UNCHANGED <<meDraft, meSelected, meLoading>>
    /\ UNCHANGED <<meClient, meServer, meEntries, meSaving, meMissed>>

\* The list, with the button of a new entry ...
DesktopNewEntry ==
    /\ DesktopMemory
    /\ meEditor' = "create" /\ meText' = NoSlug
    /\ meSelected' = NoSlug
    /\ UNCHANGED <<meClient, meServer, meList, meSaving, meCalls, meMissed>>

\* ... and the draft beside it, with Cancel.
DesktopCancelled ==
    /\ DesktopMemory /\ meEditor # "none"
    /\ DraftGoes
    /\ UNCHANGED <<meClient, meServer, meList, meSaving, meCalls, meMissed>>

-----------------------------------------------------------------------------

MemoryNext ==
    \/ \E s \in Slugs : OthersDelete(s) \/ WebSelect(s)
    \/ WebOpenCreate
    \/ WebOpenEdit
    \/ EditorCancelled
    \/ DesktopNewEntry
    \/ DesktopCancelled
    \/ \E c \in MemoryCalls :
          \/ MemoryHandles(c)
          \/ MemoryLists(c)
          \/ WebLoad(c)
          \/ WebLoaded(c)
          \/ WebDeleteEntry(c)
          \/ WebSave(c)
          \/ WebChanged(c)
          \/ DesktopLoaded(c)
          \/ DesktopOpened(c)
          \/ DesktopSave(c)
          \/ DesktopSaved(c)
          \/ DesktopRemoved(c)
          \/ \E s \in Slugs : DesktopOpen(c, s) \/ DesktopRemove(c, s)

MemorySpec == MemoryInit /\ [][MemoryNext]_meVars

-----------------------------------------------------------------------------

\* No entry is overwritten with the text of another: an editor saves to the
\* entry it was opened from, whatever answers arrive while it is open.  In
\* the web client this takes that no list missed an entry in its editor.
EntriesKeepTheirText ==
    ~meMissed => \A s \in Slugs : meServer[s] \in {s, NoSlug}

\* "saving", which disables Save (and Delete in the web client), ends: the
\* handler that set it is still under way.
MemorySavingEnds ==
    meSaving => \E c \in MemoryCalls :
                   meCalls[c].op \in {"create", "edit"} \cup (IF WebMemory THEN {"delete"} ELSE {})
=============================================================================
