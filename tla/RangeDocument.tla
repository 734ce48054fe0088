---------------------------- MODULE RangeDocument ----------------------------
(***************************************************************************)
(* The range document of one session: a row of the database that commands  *)
(* rewrite whole from snapshots they hold across awaits, that a GET may    *)
(* repair, and whose layout browser tabs save under a revision             *)
(* (db.py, topology_sync.py, inventory_sync.py, range_routes.py, and       *)
(* RangeView.tsx with layoutSaveQueue.ts in the browser).                  *)
(*                                                                         *)
(* A position is the number of the drag that put the node there, 0 where   *)
(* buildNodes computes it; of a host only its identity matters.  The       *)
(* database worker runs each read and each write as one job.               *)
(***************************************************************************)
EXTENDS Integers, Sequences, Functions

CONSTANTS
    ConfigHosts,        \* hosts the lab's config defines
    ExtensionHosts,     \* machines of extensions
    InfraHosts,         \* hosts every seed holds (attack box, bastion)
    Tabs,               \* browser tabs showing the range
    Dragged,            \* bound: the hosts whose nodes are dragged
    Reloads,            \* bound: loads a tab has in flight after failed saves
    MaxEdits,           \* bound: drags
    MaxCommands,        \* bound: commands run in the session
    MaxLosses           \* bound: requests and answers lost

ASSUME BoundsAssumption == {MaxEdits, MaxCommands, MaxLosses} \subseteq Nat

VARIABLES
    doc,        \* the row: hosts, layout and layout_revision
    lab,        \* the lab config file exists
    writers,    \* the turn's command and the scaffold, with their snapshots
    gets,       \* GETs in flight, per tab
    tabs,       \* what each tab shows, and its LatestLayoutSaver
    edits,      \* drags so far
    commands,   \* commands so far
    losses,     \* requests and answers lost so far
    accepted    \* history: the layouts saved, by revision

vars == <<doc, lab, writers, gets, tabs, edits, commands, losses, accepted>>

Hosts   == ConfigHosts \cup ExtensionHosts \cup InfraHosts
Layouts == UNION {[H -> 0 .. MaxEdits] : H \in SUBSET Hosts}
Docs    == [hosts : SUBSET Hosts, layout : Layouts, rev : 0 .. MaxEdits]
Slots   == {"effect"} \cup Reloads
NoLayout == [h \in {} |-> 0]
Row(hosts, layout, rev) == [hosts |-> hosts, layout |-> layout, rev |-> rev]
NoDoc   == Row({}, NoLayout, 0)
NoPut   == [pc |-> "none", layout |-> NoLayout, rev |-> 0]
Get(pc, d) == [pc |-> pc, doc |-> d]
NoGet   == Get("idle", NoDoc)
NewGet  == Get("sent", NoDoc)
Held(pc, d, seed) == [pc |-> pc, doc |-> d, seed |-> seed]
Waiting == Held("idle", NoDoc, {})

\* seed_topology: what the lab config, if it is there, and the provider give.
SeedTopology == InfraHosts \cup (IF lab THEN ConfigHosts ELSE {})

\* buildNodes: a saved position wins over the computed one.
Nodes(d) == [h \in d.hosts |-> IF h \in DOMAIN d.layout THEN d.layout[h] ELSE 0]

\* A session is created with its range seeded; the tabs have loaded it.
Init ==
    /\ lab \in BOOLEAN
    /\ doc = Row(SeedTopology, NoLayout, 0)
    /\ writers = [w \in {"turn", "scaffold"} |-> Waiting]
    /\ gets = [t \in Tabs |-> [s \in Slots |-> NoGet]]
    /\ tabs = [t \in Tabs |-> [shown |-> Nodes(doc), rev |-> 0, put |-> NoPut,
                               pending |-> <<>>, error |-> FALSE, stale |-> FALSE,
                               due |-> FALSE]]
    /\ edits = 0 /\ commands = 0 /\ losses = 0 /\ accepted = <<>>

\* The variant is generated, a lab directory restored, a checkout mounted.
LabAppears ==
    /\ ~lab /\ lab' = TRUE
    /\ UNCHANGED <<doc, writers, gets, tabs, edits, commands, losses, accepted>>

-----------------------------------------------------------------------------
(* Whole-document writers. *)

StoredAsIs(d) == d      \* mutant: keeps no newer layout

\* _upsert_range: a snapshot's write, but a newer layout stays.
Stored(d) ==
    IF doc.rev > d.rev THEN Row(d.hosts, doc.layout, doc.rev) ELSE d

\* merge_reseed: the seeded hosts, and the positions of those that survive.
MergeReseed(d, seeded) ==
    Row(seeded, Restrict(d.layout, DOMAIN d.layout \cap seeded), d.rev)

\* apply_instances reads the range after a command whose process has ended.
ReadCheck ==
    /\ writers["turn"].pc = "idle" /\ commands < MaxCommands
    /\ commands' = commands + 1
    /\ writers' = [writers EXCEPT !["turn"] = Held("check", doc, {})]
    /\ UNCHANGED <<doc, lab, gets, tabs, edits, losses, accepted>>

\* Missing role keys are written first, from the same snapshot.
BackfillKeys ==
    /\ writers["turn"].pc = "check"
    /\ doc' = Stored(writers["turn"].doc)
    /\ UNCHANGED <<lab, writers, gets, tabs, edits, commands, losses, accepted>>

\* The hosts' states are written, unless the inventory could not be read, and a
\* check_run event tells every tab to read again.
AnnounceCheck ==
    /\ writers["turn"].pc = "check"
    /\ doc' \in {doc, Stored(writers["turn"].doc)}
    /\ writers' = [writers EXCEPT !["turn"] = Held("announced", NoDoc, {})]
    /\ tabs' = [t \in Tabs |-> [tabs[t] EXCEPT !.due = TRUE]]
    /\ UNCHANGED <<lab, gets, edits, commands, losses, accepted>>

\* _emit_overlays: after /variant and /extensions, reseed reads the range and the
\* lab config; after /health, apply_health reads the range; else nothing follows.
Overlay ==
    /\ writers["turn"].pc = "announced"
    /\ \E held \in { Held("listing", doc, SeedTopology), Held("write", doc, {}), Waiting } :
         writers' = [writers EXCEPT !["turn"] = held]
    /\ UNCHANGED <<doc, lab, gets, tabs, edits, commands, losses, accepted>>

\* The turn is cancelled at one of its awaits.
CancelTurn ==
    /\ writers["turn"].pc \in {"check", "listing", "write"}
    /\ writers' = [writers EXCEPT !["turn"] = Waiting]
    /\ UNCHANGED <<doc, lab, gets, tabs, edits, commands, losses, accepted>>

\* The nodes of enabled extensions; none if the command fails.
ListExtensions ==
    /\ writers["turn"].pc = "listing"
    /\ \E nodes \in SUBSET ExtensionHosts :
         LET snapshot == writers["turn"]
             merged   == MergeReseed(snapshot.doc, snapshot.seed \cup nodes)
         IN  writers' = [writers EXCEPT !["turn"] = Held("write", merged, {})]
    /\ UNCHANGED <<doc, lab, gets, tabs, edits, commands, losses, accepted>>

\* _reseed_topology, once, after the scaffold generated the variant.
ReadScaffold ==
    /\ lab /\ writers["scaffold"].pc = "idle"
    /\ writers' = [writers EXCEPT !["scaffold"] =
                       Held("write", MergeReseed(doc, SeedTopology), {})]
    /\ UNCHANGED <<doc, lab, gets, tabs, edits, commands, losses, accepted>>

\* Their upsert.
Write(w) ==
    /\ writers[w].pc = "write"
    /\ doc' = Stored(writers[w].doc)
    /\ writers' = [writers EXCEPT ![w] = Held(IF w = "turn" THEN "idle" ELSE "done", NoDoc, {})]
    /\ UNCHANGED <<lab, gets, tabs, edits, commands, losses, accepted>>

-----------------------------------------------------------------------------
(* The routes. *)

NoConfigHosts(d) == d.hosts \cap ConfigHosts = {}

\* GET reads the document; it may have to be repaired if it has no config hosts, or
\* (which is not tracked) if one of them predates the OS metadata.
ServeGet(t, s) ==
    /\ gets[t][s].pc = "sent"
    /\ \E pc \in {"repair"} \cup (IF NoConfigHosts(doc) THEN {} ELSE {"answered"}) :
         gets' = [gets EXCEPT ![t][s] = Get(pc, doc)]
    /\ UNCHANGED <<doc, lab, writers, tabs, edits, commands, losses, accepted>>

\* repair_missing_config_hosts on that snapshot: adds the seed's hosts to its own, or
\* leaves them as they are but for the metadata.
Repair(t, s) ==
    LET read     == gets[t][s].doc
        repaired == IF NoConfigHosts(read) THEN MergeReseed(read, SeedTopology \cup read.hosts)
                                           ELSE read
    IN  /\ gets[t][s].pc = "repair"
        /\ doc' = IF lab THEN Stored(repaired) ELSE doc
        /\ gets' = [gets EXCEPT ![t][s] = Get("answered", IF lab THEN repaired ELSE read)]
        /\ UNCHANGED <<lab, writers, tabs, edits, commands, losses, accepted>>

NextRevision(r)  == r + 1

AnyRevision(r) == TRUE      \* mutant: no check
IsCurrent(r)   == r = doc.rev
Answer(pc, r) == [pc |-> pc, layout |-> NoLayout, rev |-> r]

\* PUT: the layout is replaced if the revision is the current one, else 409.
ServePut(t) ==
    LET put == tabs[t].put IN
    /\ put.pc = "sent"
    /\ \/ /\ IsCurrent(put.rev)
          /\ doc' = Row(doc.hosts, put.layout, NextRevision(doc.rev))
          /\ tabs' = [tabs EXCEPT ![t].put = Answer("saved", NextRevision(doc.rev))]
          /\ accepted' = Append(accepted, put.layout)
       \/ /\ ~IsCurrent(put.rev)
          /\ tabs' = [tabs EXCEPT ![t].put = Answer("refused", 0)]
          /\ UNCHANGED <<doc, losses, accepted>>
    /\ UNCHANGED <<lab, writers, gets, edits, commands, losses>>

\* The request, or the answer of one that was served, is lost.
LosePut(t) ==
    /\ tabs[t].put.pc \in {"sent", "saved"}
    /\ losses < MaxLosses /\ losses' = losses + 1
    /\ tabs' = [tabs EXCEPT ![t].put = Answer("refused", 0)]
    /\ UNCHANGED <<doc, lab, writers, gets, edits, commands, accepted>>

-----------------------------------------------------------------------------
(* The tab. *)

Busy(t) == tabs[t].put.pc # "none"
Sent(l, r) == [pc |-> "sent", layout |-> l, rev |-> r]

\* persistLayout after a drag; LatestLayoutSaver keeps the newest while it is busy.
Drag(t, h) ==
    /\ edits < MaxEdits /\ ~tabs[t].error /\ h \in DOMAIN tabs[t].shown
    /\ edits' = edits + 1
    /\ LET tab   == tabs[t]
           shown == [tab.shown EXCEPT ![h] = edits + 1]
       IN  tabs' = [tabs EXCEPT ![t] =
               IF Busy(t) THEN [tab EXCEPT !.shown = shown, !.pending = <<shown>>]
                          ELSE [tab EXCEPT !.shown = shown, !.put = Sent(shown, tab.rev)]]
    /\ UNCHANGED <<doc, lab, writers, gets, commands, losses, accepted>>

\* drain: the answer brings the revision the pending layout is sent with.
Drained(tab) ==
    [tab EXCEPT !.rev = tab.put.rev, !.pending = <<>>,
                !.put = IF tab.pending = <<>> THEN NoPut
                        ELSE Sent(Head(tab.pending), tab.put.rev)]
PutSaved(t) ==
    /\ tabs[t].put.pc = "saved"
    /\ tabs' = [tabs EXCEPT ![t] = Drained(@)]
    /\ UNCHANGED <<doc, lab, writers, gets, edits, commands, losses, accepted>>

NotReloaded(t, s) == gets   \* mutant

\* drain's error path drops what is pending and reloads the range.
Reloaded(t, s) == [gets EXCEPT ![t][s] = NewGet]
PutRefused(t) ==
    /\ tabs[t].put.pc = "refused"
    /\ \E s \in Reloads : gets[t][s].pc = "idle" /\ gets' = Reloaded(t, s)
    /\ tabs' = [tabs EXCEPT ![t].put = NoPut, ![t].pending = <<>>]
    /\ UNCHANGED <<doc, lab, writers, edits, commands, losses, accepted>>

\* setRevision is ignored while a save is under way; setNodes never is.
Loaded(tab, d) ==
    LET busy == tab.put.pc # "none" IN
    [tab EXCEPT !.shown = Nodes(d),
                !.rev = IF busy THEN @ ELSE d.rev,
                !.error = FALSE, !.stale = busy]
GetAnswered(t, s) ==
    /\ gets[t][s].pc = "answered"
    /\ tabs' = [tabs EXCEPT ![t] = Loaded(@, gets[t][s].doc)]
    /\ gets' = [gets EXCEPT ![t][s] = NoGet]
    /\ UNCHANGED <<doc, lab, writers, edits, commands, losses, accepted>>

GetFailed(t, s) ==
    /\ gets[t][s].pc \in {"sent", "answered"}
    /\ losses < MaxLosses /\ losses' = losses + 1
    /\ tabs' = [tabs EXCEPT ![t].error = TRUE]
    /\ gets' = [gets EXCEPT ![t][s] = NoGet]
    /\ UNCHANGED <<doc, lab, writers, edits, commands, accepted>>

\* A check_run event arrives: the effect reads again, its last read is ignored.
Refresh(t) ==
    /\ tabs[t].due
    /\ gets[t]["effect"].pc \in {"idle", "sent", "answered"}
    /\ tabs' = [tabs EXCEPT ![t].due = FALSE]
    /\ gets' = [gets EXCEPT ![t]["effect"] = NewGet]
    /\ UNCHANGED <<doc, lab, writers, edits, commands, losses, accepted>>

TabNext(t) ==
    \/ \E h \in Dragged : Drag(t, h)
    \/ PutSaved(t) \/ PutRefused(t) \/ LosePut(t) \/ ServePut(t) \/ Refresh(t)
    \/ \E s \in Slots : \/ ServeGet(t, s) \/ Repair(t, s)
                        \/ GetAnswered(t, s) \/ GetFailed(t, s)

Next ==
    \/ LabAppears
    \/ ReadCheck \/ BackfillKeys \/ AnnounceCheck \/ Overlay \/ CancelTurn \/ ListExtensions \/ ReadScaffold
    \/ \E w \in {"turn", "scaffold"} : Write(w)
    \/ \E t \in Tabs : TabNext(t)

Spec == Init /\ [][Next]_vars

-----------------------------------------------------------------------------
(* Properties. *)

\* Types.
TypeOK ==
    /\ doc \in Docs
    /\ lab \in BOOLEAN
    /\ \A w \in DOMAIN writers : /\ writers[w].pc \in {"idle", "check", "announced", "listing", "write", "done"}
                                 /\ writers[w].doc \in Docs
    /\ \A t \in Tabs, s \in Slots :
          /\ gets[t][s].pc \in {"idle", "sent", "repair", "answered"}
          /\ gets[t][s].doc \in Docs
    /\ \A t \in Tabs : /\ tabs[t].shown \in Layouts
                       /\ tabs[t].rev \in 0 .. MaxEdits
                       /\ tabs[t].put.layout \in Layouts
                       /\ tabs[t].put.rev \in 0 .. MaxEdits
    /\ edits \in 0 .. MaxEdits

\* Whatever snapshots the writers hold, the stored layout is the one accepted last,
\* without the positions of hosts a reseed dropped: no write brings back an older
\* layout, and the revision counts the accepted ones (upsert_range's comment).
LayoutIsAccepted ==
    /\ doc.rev = Len(accepted)
    /\ \A h \in DOMAIN doc.layout :
          /\ doc.rev > 0
          /\ h \in DOMAIN accepted[doc.rev]
          /\ doc.layout[h] = accepted[doc.rev][h]

\* A save never moves a host back to where an earlier drag had put it: whoever saves
\* has seen what it replaces (409 for a stale revision).  Unless a read was answered
\* while the tab was saving: then the tab shows older nodes than its revision says.
\* And a machine whose extension was disabled and enabled again may return to its
\* computed place: a repair can bring its position back under the same revision.
NewestWins ==
    [][\A t \in Tabs :
          tabs[t].put.pc = "sent" /\ tabs'[t].put.pc = "saved" /\ ~tabs[t].stale
          => \A h \in DOMAIN doc.layout \cap DOMAIN doc'.layout :
                \/ doc'.layout[h] >= doc.layout[h]
                \/ h \in ExtensionHosts /\ doc'.layout[h] = 0]_vars

\* The types hold, and a tab at rest, with nothing unanswered after a failed save and
\* no error on the screen, shows no position that was never saved: a drag is stored
\* or taken back.
ShownIsSaved ==
    /\ TypeOK
    /\ \A t \in Tabs :
       ~Busy(t) /\ ~tabs[t].error /\ (\A s \in Reloads : gets[t][s].pc = "idle")
       => \A h \in DOMAIN tabs[t].shown :
             \/ tabs[t].shown[h] = 0
             \/ \E n \in DOMAIN accepted : /\ h \in DOMAIN accepted[n]
                                           /\ accepted[n][h] = tabs[t].shown[h]
=============================================================================
