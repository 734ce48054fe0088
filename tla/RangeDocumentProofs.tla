------------------------ MODULE RangeDocumentProofs ------------------------
(***************************************************************************)
(* Proofs about RangeDocument, for every set of hosts, tabs and reloads    *)
(* and whatever the bounds on drags, commands and losses.                  *)
(*                                                                         *)
(* That the stored layout is the one accepted last is not inductive: a     *)
(* writer may store the layout of a snapshot it has held for long.  It     *)
(* becomes so once every snapshot, wherever it is held, is known to agree  *)
(* with the layout accepted at the snapshot's own revision (IInv).  What   *)
(* the tabs show and save rests on more (JInv): where each position that   *)
(* is shown is on its way, what the tab knows of the revision it names,    *)
(* and that a snapshot has lost positions of extensions at most.           *)
(***************************************************************************)
EXTENDS RangeDocument, FiniteSetTheorems, TLAPS

Writers == {"turn", "scaffold"}

\* A document agrees with the layout accepted at its revision.
Agrees(d, acc) ==
    /\ d.rev \in Nat /\ d.rev <= Len(acc)
    /\ \A h \in DOMAIN d.layout :
          /\ d.rev > 0
          /\ h \in DOMAIN acc[d.rev]
          /\ d.layout[h] = acc[d.rev][h]

Shapes ==
    /\ \E L : accepted \in Seq(L)
    /\ writers = [w \in Writers |-> writers[w]]
    /\ gets = [t \in Tabs |-> gets[t]]
    /\ \A t \in Tabs : gets[t] = [s \in Slots |-> gets[t][s]]

Snapshots ==
    /\ Agrees(doc, accepted)
    /\ \A w \in Writers : Agrees(writers[w].doc, accepted)
    /\ \A t \in Tabs, s \in Slots : Agrees(gets[t][s].doc, accepted)

IInv == Shapes /\ Snapshots /\ doc.rev = Len(accepted)

-----------------------------------------------------------------------------
(* No layout, no disagreement.                                              *)
LEMMA NoDocAgrees ==
    ASSUME NEW L, NEW acc \in Seq(L), NEW H
    PROVE  Agrees(Row(H, NoLayout, 0), acc)
BY DEF Agrees, Row, NoLayout

(* A reseed keeps the document's revision and loses positions at most.      *)
LEMMA MergedAgrees ==
    ASSUME NEW d, NEW S, NEW acc, Agrees(d, acc)
    PROVE  Agrees(MergeReseed(d, S), acc)
BY DEF Agrees, MergeReseed, Row, Restrict

(* What an upsert stores agrees, and has the revision of the row.           *)
LEMMA StoredAgrees ==
    ASSUME IInv, NEW d, Agrees(d, accepted)
    PROVE  Agrees(Stored(d), accepted) /\ Stored(d).rev = doc.rev
BY DEF IInv, Snapshots, Stored, Row, Agrees

(* Agreement survives the acceptance of another layout, and the row that    *)
(* holds the accepted layout agrees with it.                                *)
LEMMA AgreesAppend ==
    ASSUME NEW L, NEW acc \in Seq(L), NEW l
    PROVE  /\ Append(acc, l) \in Seq(L \cup {l}) /\ Len(Append(acc, l)) = Len(acc) + 1
           /\ \A d : Agrees(d, acc) => Agrees(d, Append(acc, l))
           /\ \A H : Agrees(Row(H, l, Len(acc) + 1), Append(acc, l))
<1>1. acc \in Seq(L \cup {l})
      OBVIOUS
<1>2. /\ Append(acc, l) \in Seq(L \cup {l}) /\ Len(Append(acc, l)) = Len(acc) + 1
      /\ \A n \in 1 .. Len(acc) : Append(acc, l)[n] = acc[n]
      /\ Append(acc, l)[Len(acc) + 1] = l /\ Len(acc) \in Nat
      BY <1>1
<1>3. ASSUME NEW d, Agrees(d, acc) PROVE Agrees(d, Append(acc, l))
      BY <1>2, <1>3 DEF Agrees
<1>4. ASSUME NEW H PROVE Agrees(Row(H, l, Len(acc) + 1), Append(acc, l))
      BY <1>2 DEF Agrees, Row
<1> QED BY <1>2, <1>3, <1>4

-----------------------------------------------------------------------------
(* A step of the writers that stores nothing but a document that agrees.    *)
LEMMA WriterStep ==
    ASSUME IInv, NEW w \in Writers, NEW pc, NEW held, NEW seed, Agrees(held, accepted),
           writers' = [writers EXCEPT ![w] = Held(pc, held, seed)] \/ UNCHANGED writers,
           doc' = doc \/ (\E d : Agrees(d, accepted) /\ doc' = Stored(d)),
           UNCHANGED <<gets, accepted>>
    PROVE  IInv'
<1>1. Agrees(doc', accepted) /\ doc'.rev = doc.rev
      BY StoredAgrees DEF IInv, Snapshots
<1>2. \A v \in Writers : writers'[v] \in {writers[v], Held(pc, held, seed)}
      BY DEF IInv, Shapes
<1>4. Held(pc, held, seed).doc = held
      BY DEF Held
<1>3. writers' = [v \in Writers |-> writers'[v]]
      BY DEF IInv, Shapes
<1> QED BY <1>1, <1>2, <1>3, <1>4 DEF IInv, Shapes, Snapshots

(* The same of the reads.                                                   *)
LEMMA GetStep ==
    ASSUME IInv, NEW t \in Tabs, NEW s \in Slots, NEW pc, NEW held, Agrees(held, accepted),
           gets' = [gets EXCEPT ![t][s] = Get(pc, held)],
           doc' = doc \/ (\E d : Agrees(d, accepted) /\ doc' = Stored(d)),
           UNCHANGED <<writers, accepted>>
    PROVE  IInv'
<1>1. Agrees(doc', accepted) /\ doc'.rev = doc.rev
      BY StoredAgrees DEF IInv, Snapshots
<1>2. \A u \in Tabs : \A r \in Slots : gets'[u][r] \in {gets[u][r], Get(pc, held)}
      BY DEF IInv, Shapes
<1>4. Get(pc, held).doc = held
      BY DEF Get
<1>3. /\ gets' = [u \in Tabs |-> gets'[u]]
      /\ \A u \in Tabs : gets'[u] = [r \in Slots |-> gets'[u][r]]
      BY DEF IInv, Shapes
<1> QED BY <1>1, <1>2, <1>3, <1>4 DEF IInv, Shapes, Snapshots

(* A step that leaves all documents alone.                                  *)
LEMMA OtherStep ==
    ASSUME IInv, UNCHANGED <<doc, writers, gets, accepted>>
    PROVE  IInv'
BY DEF IInv, Shapes, Snapshots

(* A save that is served, whether it is accepted or refused.                *)
LEMMA PutStep ==
    ASSUME IInv, NEW t \in Tabs, ServePut(t)
    PROVE  IInv'
<1> DEFINE l == tabs[t].put.layout
<1>1. CASE UNCHANGED <<doc, accepted>>
      BY <1>1, OtherStep DEF ServePut
<1>2. CASE /\ doc' = Row(doc.hosts, l, NextRevision(doc.rev))
           /\ accepted' = Append(accepted, l)
  <2>1. PICK L : accepted \in Seq(L)
        BY DEF IInv, Shapes
  <2> HIDE DEF l
  <2>2. /\ accepted' \in Seq(L \cup {l}) /\ Len(accepted') = Len(accepted) + 1
        /\ \A d : Agrees(d, accepted) => Agrees(d, accepted')
        /\ Agrees(doc', accepted')
        BY <1>2, <2>1, AgreesAppend DEF NextRevision, IInv
  <2>3. doc'.rev = Len(accepted')
        BY <1>2, <2>2 DEF NextRevision, IInv, Row
  <2>4. UNCHANGED <<writers, gets>>
        BY DEF ServePut
  <2> QED BY <2>2, <2>3, <2>4 DEF IInv, Shapes, Snapshots
<1> QED BY <1>1, <1>2 DEF ServePut

-----------------------------------------------------------------------------
(* The initial state satisfies the invariant.                               *)
LEMMA InitIInv == Init => IInv
<1> SUFFICES ASSUME Init PROVE IInv
    OBVIOUS
<1>1. accepted \in Seq({}) /\ Len(accepted) = 0
      BY DEF Init
<1>2. Agrees(Row({}, NoLayout, 0), accepted) /\ Agrees(doc, accepted)
      BY <1>1, NoDocAgrees DEF Init
<1>3. Shapes
      BY <1>1 DEF Init, Shapes, Writers
<1>4. Snapshots
      BY <1>2 DEF Init, Snapshots, Writers, Waiting, Held, NoGet, Get, NoDoc
<1> QED BY <1>1, <1>3, <1>4 DEF Init, IInv, Row

(* Every step keeps it.                                                     *)
LEMMA NextIInv == IInv /\ [Next]_vars => IInv'
<1> SUFFICES ASSUME IInv, [Next]_vars PROVE IInv'
    OBVIOUS
<1>a. Agrees(doc, accepted)
      BY DEF IInv, Snapshots
<1>n. Agrees(NoDoc, accepted)
      BY NoDocAgrees DEF IInv, Shapes, NoDoc
<1>w. \A w \in Writers : Agrees(writers[w].doc, accepted)
      BY DEF IInv, Snapshots
<1>t. "turn" \in Writers /\ "scaffold" \in Writers
      BY DEF Writers
<1>1. CASE ReadCheck
      BY <1>1, <1>a, <1>t, WriterStep DEF ReadCheck
<1>2. CASE BackfillKeys
      BY <1>2, <1>a, <1>t, <1>w, WriterStep DEF BackfillKeys
<1>3. CASE AnnounceCheck
      BY <1>3, <1>n, <1>t, <1>w, WriterStep DEF AnnounceCheck
<1>4. CASE Overlay
  <2>1. CASE writers' = [writers EXCEPT !["turn"] = Held("listing", doc, SeedTopology)]
        BY <1>4, <2>1, <1>a, <1>t, WriterStep DEF Overlay
  <2>2. CASE writers' = [writers EXCEPT !["turn"] = Held("write", doc, {})]
        BY <1>4, <2>2, <1>a, <1>t, WriterStep DEF Overlay
  <2>3. CASE writers' = [writers EXCEPT !["turn"] = Held("idle", NoDoc, {})]
        BY <1>4, <2>3, <1>n, <1>t, WriterStep DEF Overlay
  <2> QED BY <1>4, <2>1, <2>2, <2>3 DEF Overlay, Waiting
<1>5. CASE CancelTurn
      BY <1>5, <1>n, <1>t, WriterStep DEF CancelTurn, Waiting
<1>6. CASE ListExtensions
  <2>1. PICK nodes \in SUBSET ExtensionHosts :
            writers' = [writers EXCEPT !["turn"] =
                Held("write", MergeReseed(writers["turn"].doc, writers["turn"].seed \cup nodes), {})]
        BY <1>6 DEF ListExtensions
  <2>2. Agrees(MergeReseed(writers["turn"].doc, writers["turn"].seed \cup nodes), accepted)
        BY <1>w, <1>t, MergedAgrees
  <2> QED BY <1>6, <2>1, <2>2, <1>t, WriterStep DEF ListExtensions
<1>7. CASE ReadScaffold
  <2>1. Agrees(MergeReseed(doc, SeedTopology), accepted)
        BY <1>a, MergedAgrees
  <2> QED BY <1>7, <2>1, <1>t, WriterStep DEF ReadScaffold
<1>8. ASSUME NEW w \in {"turn", "scaffold"}, Write(w) PROVE IInv'
      BY <1>8, <1>n, <1>w, WriterStep DEF Write, Writers
<1>9. ASSUME NEW t \in Tabs, TabNext(t) PROVE IInv'
  <2>1. CASE \/ \E h \in Dragged : Drag(t, h)
             \/ PutSaved(t) \/ LosePut(t)
        BY <2>1, OtherStep DEF Drag, PutSaved, LosePut
  <2>2. CASE ServePut(t)
        BY <2>2, PutStep
  <2>3. CASE PutRefused(t)
    <3>1. PICK s \in Reloads : gets' = [gets EXCEPT ![t][s] = Get("sent", NoDoc)]
          BY <2>3 DEF PutRefused, Reloaded, NewGet
    <3>2. s \in Slots /\ UNCHANGED <<doc, writers, accepted>>
          BY <2>3, <3>1 DEF PutRefused, Slots
    <3> QED BY <3>1, <3>2, <1>n, GetStep
  <2>4. CASE Refresh(t)
        BY <2>4, <1>n, GetStep DEF Refresh, NewGet, Slots
  <2>5. ASSUME NEW s \in Slots, ServeGet(t, s) PROVE IInv'
        BY <2>5, <1>a, GetStep DEF ServeGet
  <2>6. ASSUME NEW s \in Slots, Repair(t, s) PROVE IInv'
    <3> DEFINE read     == gets[t][s].doc
               repaired == IF NoConfigHosts(read)
                           THEN MergeReseed(read, SeedTopology \cup read.hosts) ELSE read
               answer   == IF lab THEN repaired ELSE read
    <3>1. Agrees(read, accepted)
          BY DEF IInv, Snapshots
    <3>2. Agrees(repaired, accepted)
          BY <3>1, MergedAgrees
    <3>3. /\ doc' = IF lab THEN Stored(repaired) ELSE doc
          /\ gets' = [gets EXCEPT ![t][s] = Get("answered", answer)]
          /\ UNCHANGED <<writers, accepted>>
          BY <2>6 DEF Repair
    <3>4. Agrees(answer, accepted)
          BY <3>1, <3>2
    <3> HIDE DEF read, repaired, answer
    <3> QED BY <3>2, <3>3, <3>4, GetStep
  <2>7. ASSUME NEW s \in Slots, GetAnswered(t, s) \/ GetFailed(t, s) PROVE IInv'
        BY <2>7, <1>n, GetStep DEF GetAnswered, GetFailed, NoGet
  <2> QED BY <1>9, <2>1, <2>2, <2>3, <2>4, <2>5, <2>6, <2>7 DEF TabNext
<1>10. CASE LabAppears
      BY <1>10, OtherStep DEF LabAppears
<1>11. CASE UNCHANGED vars
      BY <1>11, OtherStep DEF vars
<1> QED BY <1>1, <1>2, <1>3, <1>4, <1>5, <1>6, <1>7, <1>8, <1>9, <1>10, <1>11 DEF Next

(* Whatever snapshots the commands, the scaffold and the repairing reads    *)
(* write back, the stored layout is always the one accepted last, less the  *)
(* hosts a reseed dropped.                                                  *)
THEOREM NoLayoutRestored == Spec => []LayoutIsAccepted
<1>1. Init => IInv
      BY InitIInv
<1>2. IInv /\ [Next]_vars => IInv'
      BY NextIInv
<1>3. IInv => LayoutIsAccepted
      BY DEF IInv, Snapshots, Agrees, LayoutIsAccepted
<1> QED BY <1>1, <1>2, <1>3, PTL DEF Spec

-----------------------------------------------------------------------------
(* Tabs.  What a tab shows and what it saves is related to the layouts that *)
(* have been accepted: nothing it shows gets lost on the way (Carried), and *)
(* it is not behind the layout accepted at the revision it will name        *)
(* (Follows).  Both rest on what snapshots hold: a document places no host  *)
(* the lab does not have yet, and at its own revision it has lost positions *)
(* of extensions at most.                                                   *)
Allowed == InfraHosts \cup ExtensionHosts \cup (IF lab THEN ConfigHosts ELSE {})

Placed(A, n) == UNION {[H -> 0 .. n] : H \in SUBSET A}
DocsAt(A, n) == [hosts : SUBSET A, layout : Placed(A, n), rev : Nat]

WriterPcs == {"idle", "check", "announced", "listing", "write", "done"}
GetPcs    == {"idle", "sent", "repair", "answered"}
PutPcs    == {"none", "sent", "saved", "refused"}

PutsAt(A, n)  == [pc : PutPcs, layout : Placed(A, n), rev : Nat]
QueueAt(A, n) == {<<>>} \cup {<<l>> : l \in Placed(A, n)}
TabsAt(A, n)  ==
    [shown : Placed(A, n), rev : Nat, put : PutsAt(A, n), pending : QueueAt(A, n),
     error : BOOLEAN, stale : BOOLEAN, due : BOOLEAN]

Spares(l, kept) == DOMAIN l \ ExtensionHosts \subseteq kept

Good(d, acc, A, n) ==
    /\ d \in DocsAt(A, n)
    /\ d.rev > 0 => Spares(acc[d.rev], DOMAIN d.layout)

Typed ==
    /\ lab \in BOOLEAN /\ edits \in 0 .. MaxEdits
    /\ accepted \in Seq(Placed(Allowed, edits))

DocsGood ==
    /\ Good(doc, accepted, Allowed, edits)
    /\ \A w \in Writers : /\ writers[w].pc \in WriterPcs
                          /\ Good(writers[w].doc, accepted, Allowed, edits)
    /\ writers["turn"].pc = "listing" =>
          /\ writers["turn"].seed \subseteq Allowed
          /\ Spares(writers["turn"].doc.layout, writers["turn"].seed)
    /\ \A t \in Tabs, s \in Slots : /\ gets[t][s].pc \in GetPcs
                                    /\ Good(gets[t][s].doc, accepted, Allowed, edits)

Loading(t) == \E s \in Reloads : gets[t][s].pc # "idle"

Holds(l, h, n) == h \in DOMAIN l /\ l[h] = n
Saved(n, h, acc) == n = 0 \/ \E i \in DOMAIN acc : Holds(acc[i], h, n)

\* Where a position that is shown is on its way, or why it will be taken back.
Carried(tab, h, loading, acc) ==
    \/ Saved(tab.shown[h], h, acc)
    \/ tab.put.pc = "refused"
    \/ tab.put.pc = "none" /\ (tab.error \/ loading)
    \/ /\ tab.put.pc = "sent" /\ tab.pending = <<>>
       /\ Holds(tab.put.layout, h, tab.shown[h])
    \/ /\ tab.put.pc \in {"sent", "saved"} /\ tab.pending # <<>>
       /\ Holds(tab.pending[1], h, tab.shown[h])

NotOlder(l, m) == \A h \in DOMAIN l \cap DOMAIN m : l[h] >= m[h]
NotBehind(l, r, acc) ==
    r > 0 => \A h \in DOMAIN l \cap DOMAIN acc[r] :
                 l[h] >= acc[r][h] \/ (h \in ExtensionHosts /\ l[h] = 0)

Follows(tab, acc) ==
    /\ NotBehind(tab.shown, tab.rev, acc)
    /\ tab.put.pc = "sent" =>
         /\ NotBehind(tab.put.layout, tab.rev, acc)
         /\ NotOlder(tab.shown, tab.put.layout)
         /\ tab.pending # <<>> => NotOlder(tab.pending[1], tab.put.layout)
    /\ tab.put.pc = "saved" =>
         /\ NotBehind(tab.shown, tab.put.rev, acc)
         /\ tab.pending # <<>> => NotBehind(tab.pending[1], tab.put.rev, acc)
    /\ tab.pending # <<>> => NotOlder(tab.shown, tab.pending[1])

TabSane(tab, loading, acc) ==
    /\ tab.rev <= Len(acc) /\ tab.put.rev <= Len(acc)
    /\ tab.put.pc = "sent" => tab.put.rev = tab.rev
    /\ tab.put.pc = "none" => tab.pending = <<>>
    /\ \A h \in DOMAIN tab.shown : Carried(tab, h, loading, acc)
    /\ ~tab.stale => Follows(tab, acc)

TabsGood ==
    /\ tabs \in [Tabs -> TabsAt(Allowed, edits)]
    /\ \A t \in Tabs : TabSane(tabs[t], Loading(t), accepted)

\* Every layout that is accepted or may still be is a drag of its own.
Sending == {t \in Tabs : tabs[t].put.pc = "sent"}
Pending == {t \in Tabs : tabs[t].pending # <<>>}
Counted ==
    /\ IsFiniteSet(Sending) /\ IsFiniteSet(Pending)
    /\ Len(accepted) + Cardinality(Sending) + Cardinality(Pending) <= edits

JInv == IInv /\ Typed /\ DocsGood /\ TabsGood /\ Counted

-----------------------------------------------------------------------------
(* Layouts.                                                                 *)
LEMMA PlacedIs ==
    ASSUME NEW A, NEW n, NEW l
    PROVE  l \in Placed(A, n) <=> /\ DOMAIN l \subseteq A
                                  /\ l = [h \in DOMAIN l |-> l[h]]
                                  /\ \A h \in DOMAIN l : l[h] \in 0 .. n
<1>1. ASSUME l \in Placed(A, n)
      PROVE  /\ DOMAIN l \subseteq A /\ l = [h \in DOMAIN l |-> l[h]]
             /\ \A h \in DOMAIN l : l[h] \in 0 .. n
  <2>1. PICK H \in SUBSET A : l \in [H -> 0 .. n]
        BY <1>1 DEF Placed
  <2> QED BY <2>1
<1>2. ASSUME DOMAIN l \subseteq A, l = [h \in DOMAIN l |-> l[h]],
             \A h \in DOMAIN l : l[h] \in 0 .. n
      PROVE  l \in Placed(A, n)
  <2>1. l \in [DOMAIN l -> 0 .. n]
        BY <1>2
  <2> QED BY <1>2, <2>1 DEF Placed
<1> QED BY <1>1, <1>2

LEMMA PlacedMore ==
    ASSUME NEW A, NEW B, NEW n \in Nat, NEW m \in Nat, A \subseteq B, n <= m
    PROVE  Placed(A, n) \subseteq Placed(B, m)
<1> SUFFICES ASSUME NEW l \in Placed(A, n) PROVE l \in Placed(B, m)
    OBVIOUS
<1>1. \A h \in DOMAIN l : l[h] \in 0 .. m
      BY PlacedIs
<1> QED BY <1>1, PlacedIs

LEMMA NoLayoutPlaced ==
    ASSUME NEW A, NEW n PROVE NoLayout \in Placed(A, n)
<1>1. NoLayout = [h \in DOMAIN NoLayout |-> NoLayout[h]] /\ DOMAIN NoLayout = {}
      BY DEF NoLayout
<1> QED BY <1>1, PlacedIs

(* What buildNodes shows of a document.                                     *)
LEMMA NodesPlaced ==
    ASSUME NEW A, NEW n \in Nat, NEW d \in DocsAt(A, n)
    PROVE  /\ Nodes(d) \in Placed(A, n)
           /\ \A h \in DOMAIN Nodes(d) : \/ Nodes(d)[h] = 0
                                         \/ h \in DOMAIN d.layout /\ Nodes(d)[h] = d.layout[h]
<1>1. d.layout \in Placed(A, n) /\ d.hosts \subseteq A
      BY DEF DocsAt
<1>2. \A h \in DOMAIN d.layout : d.layout[h] \in 0 .. n
      BY <1>1, PlacedIs
<1>3. /\ DOMAIN Nodes(d) = d.hosts
      /\ Nodes(d) = [h \in DOMAIN Nodes(d) |-> Nodes(d)[h]]
      /\ \A h \in DOMAIN Nodes(d) : \/ Nodes(d)[h] = 0
                                    \/ h \in DOMAIN d.layout /\ Nodes(d)[h] = d.layout[h]
      BY DEF Nodes
<1>4. \A h \in DOMAIN Nodes(d) : Nodes(d)[h] \in 0 .. n
      BY <1>2, <1>3
<1> QED BY <1>1, <1>3, <1>4, PlacedIs

-----------------------------------------------------------------------------
(* Documents.                                                               *)
LEMMA GoodMore ==
    ASSUME NEW d, NEW acc, NEW A, NEW B, NEW n \in Nat, NEW m \in Nat,
           A \subseteq B, n <= m, Good(d, acc, A, n)
    PROVE  Good(d, acc, B, m)
BY PlacedMore DEF Good, DocsAt

LEMMA NoDocGood ==
    ASSUME NEW acc, NEW A, NEW n, NEW H \in SUBSET A
    PROVE  Good(Row(H, NoLayout, 0), acc, A, n)
BY NoLayoutPlaced DEF Good, Row, DocsAt

LEMMA MergedGood ==
    ASSUME NEW d, NEW acc, NEW A, NEW n, NEW S \in SUBSET A, Spares(d.layout, S),
           Good(d, acc, A, n)
    PROVE  Good(MergeReseed(d, S), acc, A, n) /\ MergeReseed(d, S).layout = Restrict(d.layout, DOMAIN d.layout \cap S)
<1> DEFINE l == Restrict(d.layout, DOMAIN d.layout \cap S)
           m == MergeReseed(d, S)
<1>1. m.hosts = S /\ m.layout = l /\ m.rev = d.rev /\ m = Row(S, l, d.rev)
      BY DEF MergeReseed, Row
<1>2. /\ DOMAIN l = DOMAIN d.layout \cap S
      /\ l = [h \in DOMAIN l |-> l[h]]
      /\ \A h \in DOMAIN l : l[h] = d.layout[h]
      BY DEF Restrict
<1>3. d.layout \in Placed(A, n) /\ d.rev \in Nat
      BY DEF Good, DocsAt
<1>4. l \in Placed(A, n)
  <2>1. DOMAIN d.layout \subseteq A /\ \A h \in DOMAIN d.layout : d.layout[h] \in 0 .. n
        BY <1>3, PlacedIs
  <2>2. DOMAIN l \subseteq A /\ \A h \in DOMAIN l : l[h] \in 0 .. n
        BY <1>2, <2>1
  <2> HIDE DEF l
  <2> QED BY <1>2, <2>2, PlacedIs
<1>5. d.rev > 0 => Spares(acc[d.rev], DOMAIN l)
      BY <1>2 DEF Good, Spares
<1> HIDE DEF l, m
<1>6. m \in DocsAt(A, n)
      BY <1>1, <1>3, <1>4 DEF DocsAt, Row
<1> QED BY <1>1, <1>5, <1>6 DEF Good, l, m

(* The seed leaves out no host that is placed, but for extensions.          *)
LEMMA SeedSpares ==
    ASSUME NEW d \in DocsAt(Allowed, edits)
    PROVE  SeedTopology \subseteq Allowed /\ Spares(d.layout, SeedTopology)
<1>1. DOMAIN d.layout \subseteq Allowed
      BY PlacedIs DEF DocsAt
<1> QED BY <1>1 DEF Allowed, SeedTopology, Spares

LEMMA StoredGood ==
    ASSUME JInv, NEW d, Good(d, accepted, Allowed, edits), Agrees(d, accepted)
    PROVE  Good(Stored(d), accepted, Allowed, edits)
<1>1. CASE doc.rev > d.rev
  <2>1. Stored(d) = Row(d.hosts, doc.layout, doc.rev)
        BY <1>1 DEF Stored
  <2> QED BY <2>1 DEF JInv, DocsGood, Good, DocsAt, Row
<1>2. CASE ~(doc.rev > d.rev)
      BY <1>2 DEF Stored
<1> QED BY <1>1, <1>2

LEMMA WriterGood ==
    ASSUME JInv, NEW w \in Writers, NEW pc \in WriterPcs, NEW held, NEW seed,
           Good(held, accepted, Allowed, edits),
           pc = "listing" => seed \subseteq Allowed /\ Spares(held.layout, seed),
           writers' = [writers EXCEPT ![w] = Held(pc, held, seed)] \/ UNCHANGED writers,
           doc' = doc \/ (\E d : /\ Agrees(d, accepted) /\ Good(d, accepted, Allowed, edits)
                                 /\ doc' = Stored(d)),
           UNCHANGED <<gets, accepted, edits, lab>>
    PROVE  DocsGood'
<1>1. Good(doc', accepted, Allowed, edits)
      BY StoredGood DEF JInv, DocsGood
<1>2. \A v \in Writers : writers'[v] \in {writers[v], Held(pc, held, seed)}
      BY DEF JInv, IInv, Shapes
<1>3. Held(pc, held, seed).doc = held /\ Held(pc, held, seed).pc = pc /\ Held(pc, held, seed).seed = seed
      BY DEF Held
<1>4. Allowed' = Allowed /\ "turn" \in Writers
      BY DEF Allowed, Writers
<1>5. \A v \in Writers : /\ writers'[v].pc \in WriterPcs
                         /\ Good(writers'[v].doc, accepted, Allowed, edits)
      BY <1>2, <1>3 DEF JInv, DocsGood
<1>6. writers'["turn"].pc = "listing" =>
         /\ writers'["turn"].seed \subseteq Allowed
         /\ Spares(writers'["turn"].doc.layout, writers'["turn"].seed)
      BY <1>2, <1>3, <1>4 DEF JInv, DocsGood
<1> QED BY <1>1, <1>4, <1>5, <1>6 DEF JInv, DocsGood

LEMMA GetGood ==
    ASSUME JInv, NEW t \in Tabs, NEW s \in Slots, NEW pc \in GetPcs, NEW held,
           Good(held, accepted, Allowed, edits),
           gets' = [gets EXCEPT ![t][s] = Get(pc, held)],
           doc' = doc \/ (\E d : /\ Agrees(d, accepted) /\ Good(d, accepted, Allowed, edits)
                                 /\ doc' = Stored(d)),
           UNCHANGED <<writers, accepted, edits, lab>>
    PROVE  DocsGood'
<1>1. Good(doc', accepted, Allowed, edits)
      BY StoredGood DEF JInv, DocsGood
<1>2. \A u \in Tabs : \A r \in Slots : gets'[u][r] \in {gets[u][r], Get(pc, held)}
      BY DEF JInv, IInv, Shapes
<1>3. Get(pc, held).doc = held /\ Get(pc, held).pc = pc
      BY DEF Get
<1>4. Allowed' = Allowed
      BY DEF Allowed
<1>5. \A u \in Tabs, r \in Slots : /\ gets'[u][r].pc \in GetPcs
                                   /\ Good(gets'[u][r].doc, accepted, Allowed, edits)
      BY <1>2, <1>3 DEF JInv, DocsGood
<1> QED BY <1>1, <1>4, <1>5 DEF JInv, DocsGood

(* More hosts or more drags disturb no document.                            *)
LEMMA MoreGood ==
    ASSUME JInv, UNCHANGED <<doc, writers, gets, accepted>>,
           Allowed \subseteq Allowed', edits' \in Nat, edits <= edits'
    PROVE  DocsGood'
<1>1. \A d : Good(d, accepted, Allowed, edits) => Good(d, accepted, Allowed', edits')
      BY GoodMore DEF JInv, Typed
<1> QED BY <1>1 DEF JInv, DocsGood

-----------------------------------------------------------------------------
(* Tabs.                                                                    *)
LEMMA TabsMore ==
    ASSUME NEW A, NEW B, NEW n \in Nat, NEW m \in Nat, A \subseteq B, n <= m
    PROVE  TabsAt(A, n) \subseteq TabsAt(B, m)
<1>1. Placed(A, n) \subseteq Placed(B, m)
      BY PlacedMore
<1>2. PutsAt(A, n) \subseteq PutsAt(B, m) /\ QueueAt(A, n) \subseteq QueueAt(B, m)
      BY <1>1 DEF PutsAt, QueueAt
<1> QED BY <1>1, <1>2 DEF TabsAt

LEMMA SaneLoading ==
    ASSUME NEW tab, NEW before \in BOOLEAN, NEW after \in BOOLEAN, NEW acc,
           TabSane(tab, before, acc), before => after
    PROVE  TabSane(tab, after, acc)
BY DEF TabSane, Carried

(* What is accepted stays accepted, and another acceptance tells a tab      *)
(* nothing about the revisions it knows.                                    *)
LEMMA SaneAppend ==
    ASSUME NEW A, NEW n, NEW tab \in TabsAt(A, n), NEW loading, NEW L, NEW acc \in Seq(L), NEW l,
           TabSane(tab, loading, acc)
    PROVE  TabSane(tab, loading, Append(acc, l))
<1> DEFINE more == Append(acc, l)
<1>1. /\ Len(more) = Len(acc) + 1 /\ Len(acc) \in Nat
      /\ \A i \in 1 .. Len(acc) : more[i] = acc[i] /\ i \in DOMAIN more
      /\ DOMAIN acc = 1 .. Len(acc)
      OBVIOUS
<1>2. tab.rev \in Nat /\ tab.put.rev \in Nat
      BY DEF TabsAt, PutsAt
<1> HIDE DEF more
<1>3. \A v, h : Saved(v, h, acc) => Saved(v, h, more)
      BY <1>1 DEF Saved
<1>4. \A m : \A r \in Nat : r <= Len(acc) /\ NotBehind(m, r, acc) => NotBehind(m, r, more)
      BY <1>1 DEF NotBehind
<1>5. \A h \in DOMAIN tab.shown : Carried(tab, h, loading, more)
      BY <1>3 DEF TabSane, Carried
<1>6. ~tab.stale => Follows(tab, more)
      BY <1>2, <1>4 DEF TabSane, Follows
<1>7. TabSane(tab, loading, more)
      BY <1>1, <1>2, <1>5, <1>6 DEF TabSane
<1> QED BY <1>7 DEF more

LEMMA TabFacts ==
    ASSUME JInv, NEW t \in Tabs
    PROVE  /\ tabs[t] \in TabsAt(Allowed, edits)
           /\ tabs[t].shown \in Placed(Allowed, edits) /\ tabs[t].put \in PutsAt(Allowed, edits)
           /\ tabs[t].pending \in QueueAt(Allowed, edits) /\ tabs[t].rev \in Nat
           /\ tabs[t].put.layout \in Placed(Allowed, edits) /\ tabs[t].put.rev \in Nat
           /\ tabs[t].put.pc \in PutPcs
           /\ tabs[t].pending # <<>> => \E l \in Placed(Allowed, edits) : tabs[t].pending = <<l>>
           /\ tabs[t].error \in BOOLEAN /\ tabs[t].stale \in BOOLEAN /\ tabs[t].due \in BOOLEAN
           /\ TabSane(tabs[t], Loading(t), accepted)
           /\ edits \in Nat
BY DEF JInv, Typed, TabsGood, TabsAt, PutsAt, QueueAt

LEMMA TabStep ==
    ASSUME JInv, NEW t \in Tabs, NEW q, tabs' = [tabs EXCEPT ![t] = q], UNCHANGED accepted,
           Allowed \subseteq Allowed', edits' \in Nat, edits <= edits',
           q \in TabsAt(Allowed', edits'), TabSane(q, Loading(t)', accepted),
           \A u \in Tabs : u # t /\ Loading(u) => Loading(u)'
    PROVE  TabsGood'
<1>1. TabsAt(Allowed, edits) \subseteq TabsAt(Allowed', edits')
      BY TabsMore DEF JInv, Typed
<1>2. tabs' \in [Tabs -> TabsAt(Allowed', edits')]
      BY <1>1 DEF JInv, TabsGood
<1>3. ASSUME NEW u \in Tabs PROVE TabSane(tabs'[u], Loading(u)', accepted)
  <2>1. CASE u = t
        BY <2>1 DEF JInv, TabsGood
  <2>2. CASE u # t
    <3>1. tabs'[u] = tabs[u] /\ TabSane(tabs[u], Loading(u), accepted)
          BY <2>2 DEF JInv, TabsGood
    <3>2. Loading(u) \in BOOLEAN /\ Loading(u)' \in BOOLEAN
          BY DEF Loading
    <3> QED BY <2>2, <3>1, <3>2, SaneLoading
  <2> QED BY <2>1, <2>2
<1> QED BY <1>2, <1>3 DEF TabsGood

LEMMA TabsStay ==
    ASSUME JInv, UNCHANGED <<tabs, accepted>>, Allowed \subseteq Allowed',
           edits' \in Nat, edits <= edits', \A u \in Tabs : Loading(u) => Loading(u)'
    PROVE  TabsGood'
<1>1. TabsAt(Allowed, edits) \subseteq TabsAt(Allowed', edits')
      BY TabsMore DEF JInv, Typed
<1>2. ASSUME NEW u \in Tabs PROVE TabSane(tabs[u], Loading(u)', accepted)
  <2>1. Loading(u) \in BOOLEAN /\ Loading(u)' \in BOOLEAN
        BY DEF Loading
  <2> QED BY <2>1, SaneLoading DEF JInv, TabsGood
<1> QED BY <1>1, <1>2 DEF JInv, TabsGood

(* A read that goes on keeps its tab loading; no other tab notices.         *)
LEMMA LoadingStep ==
    ASSUME JInv, NEW t \in Tabs, NEW s \in Slots, NEW pc, NEW d,
           gets' = [gets EXCEPT ![t][s] = Get(pc, d)]
    PROVE  /\ \A u \in Tabs : u # t /\ Loading(u) => Loading(u)'
           /\ pc # "idle" => (Loading(t) => Loading(t)')
           /\ pc # "idle" /\ s \in Reloads => Loading(t)'
<1>1. /\ \A u \in Tabs : u # t => gets'[u] = gets[u]
      /\ \A r \in Slots : r # s => gets'[t][r] = gets[t][r]
      /\ gets'[t][s].pc = pc
      BY DEF JInv, IInv, Shapes, Get
<1>2. \A r \in Reloads : r \in Slots
      BY DEF Slots
<1> QED BY <1>1, <1>2 DEF Loading

LEMMA LoadsOn ==
    ASSUME JInv, NEW t \in Tabs, NEW s \in Slots, NEW pc, NEW d, pc # "idle",
           gets' = [gets EXCEPT ![t][s] = Get(pc, d)]
    PROVE  \A u \in Tabs : Loading(u) => Loading(u)'
<1>1. /\ \A u \in Tabs : u # t => gets'[u] = gets[u]
      /\ \A r \in Slots : r # s => gets'[t][r] = gets[t][r]
      /\ gets'[t][s].pc = pc
      BY DEF JInv, IInv, Shapes, Get
<1>2. \A r \in Reloads : r \in Slots
      BY DEF Slots
<1> QED BY <1>1, <1>2 DEF Loading

LEMMA StillLoading ==
    ASSUME UNCHANGED gets PROVE \A u \in Tabs : Loading(u)' <=> Loading(u)
BY DEF Loading

(* Dragging: the new position is the newest of all, and is saved or queued. *)
LEMMA DragGood ==
    ASSUME JInv, NEW t \in Tabs, NEW h \in Dragged, Drag(t, h)
    PROVE  TabsGood'
<1> DEFINE tab == tabs[t]
           shown == [tab.shown EXCEPT ![h] = edits + 1]
           busy == [tab EXCEPT !.shown = shown, !.pending = <<shown>>]
           idle == [tab EXCEPT !.shown = shown, !.put = Sent(shown, tab.rev)]
<1>1. /\ ~tab.error /\ h \in DOMAIN tab.shown /\ edits' = edits + 1
      /\ UNCHANGED <<lab, gets, accepted>>
      /\ tabs' = [tabs EXCEPT ![t] = IF Busy(t) THEN busy ELSE idle]
      BY DEF Drag
<1>2. /\ tab \in TabsAt(Allowed, edits)
      /\ tab.shown \in Placed(Allowed, edits) /\ tab.put \in PutsAt(Allowed, edits)
      /\ tab.pending \in QueueAt(Allowed, edits) /\ tab.rev \in Nat
      /\ tab.put.layout \in Placed(Allowed, edits) /\ edits \in Nat
      /\ TabSane(tab, Loading(t), accepted)
      BY TabFacts
<1>3. Allowed' = Allowed /\ edits' \in Nat /\ edits <= edits'
      BY <1>1, <1>2 DEF Allowed
<1>4. /\ DOMAIN shown = DOMAIN tab.shown
      /\ \A g \in DOMAIN shown : shown[g] = IF g = h THEN edits + 1 ELSE tab.shown[g]
      /\ shown = [g \in DOMAIN shown |-> shown[g]]
      OBVIOUS
<1>5. \A g \in DOMAIN tab.shown : tab.shown[g] \in 0 .. edits
      BY <1>2, PlacedIs
<1>6. shown \in Placed(Allowed, edits')
  <2>1. DOMAIN shown \subseteq Allowed
        BY <1>2, <1>4, PlacedIs
  <2>2. \A g \in DOMAIN shown : shown[g] \in 0 .. edits'
        BY <1>1, <1>2, <1>4, <1>5
  <2> QED BY <1>4, <2>1, <2>2, PlacedIs
<1>7. \A m \in Placed(Allowed, edits) : \A g \in DOMAIN m : m[g] \in 0 .. edits
      BY PlacedIs
<1>8. NotOlder(shown, tab.shown)
      BY <1>2, <1>4, <1>5 DEF NotOlder
<1>9. \A m \in Placed(Allowed, edits) : NotOlder(tab.shown, m) => NotOlder(shown, m)
      BY <1>2, <1>4, <1>7 DEF NotOlder
<1>10. \A r \in Nat : r <= Len(accepted) /\ NotBehind(tab.shown, r, accepted)
                      => NotBehind(shown, r, accepted)
  <2>1. \A r \in Nat : r > 0 /\ r <= Len(accepted) => accepted[r] \in Placed(Allowed, edits)
        BY DEF JInv, Typed
  <2> QED BY <1>2, <1>4, <1>7, <2>1 DEF NotBehind
<1>11. NotOlder(shown, shown)
      BY <1>2, <1>4, <1>5 DEF NotOlder
<1>12. tab.put.rev \in Nat /\ tab.put.pc \in PutPcs
      BY <1>2 DEF PutsAt
<1> HIDE DEF shown
<1>13. CASE Busy(t)
  <2>1. /\ busy.shown = shown /\ busy.pending = <<shown>> /\ busy.put = tab.put
        /\ busy.rev = tab.rev /\ busy.stale = tab.stale
        BY <1>2 DEF TabsAt
  <2>2. busy \in TabsAt(Allowed', edits')
    <3>1. tab \in TabsAt(Allowed', edits')
          BY <1>2, <1>3, TabsMore
    <3>2. <<shown>> \in QueueAt(Allowed', edits')
          BY <1>3, <1>6 DEF QueueAt
    <3> QED BY <1>3, <1>6, <3>1, <3>2 DEF TabsAt
  <2> HIDE DEF busy
  <2>3. ~busy.stale => Follows(busy, accepted)
    <3> SUFFICES ASSUME ~tab.stale PROVE Follows(busy, accepted)
        BY <2>1
    <3>1. Follows(tab, accepted) /\ tab.rev <= Len(accepted) /\ tab.put.rev <= Len(accepted)
          BY <1>2 DEF TabSane
    <3>2. busy.pending # <<>> /\ busy.pending[1] = shown
          BY <2>1
    <3>3. NotBehind(busy.shown, busy.rev, accepted)
          BY <1>2, <1>10, <2>1, <3>1 DEF Follows
    <3>4. busy.put.pc = "sent" =>
            /\ NotBehind(busy.put.layout, busy.rev, accepted)
            /\ NotOlder(busy.shown, busy.put.layout) /\ NotOlder(busy.pending[1], busy.put.layout)
          BY <1>2, <1>9, <2>1, <3>1, <3>2 DEF Follows
    <3>5. busy.put.pc = "saved" =>
            /\ NotBehind(busy.shown, busy.put.rev, accepted)
            /\ NotBehind(busy.pending[1], busy.put.rev, accepted)
          BY <1>10, <1>12, <2>1, <3>1, <3>2 DEF Follows
    <3> QED BY <1>11, <2>1, <3>2, <3>3, <3>4, <3>5 DEF Follows
  <2>4. \A g \in DOMAIN busy.shown : Carried(busy, g, Loading(t)', accepted)
        BY <1>12, <1>13, <2>1 DEF Carried, Holds, Busy, PutPcs
  <2>5. TabSane(busy, Loading(t)', accepted)
        BY <1>2, <1>13, <2>1, <2>3, <2>4 DEF TabSane, Busy
  <2>6. tabs' = [tabs EXCEPT ![t] = busy]
        BY <1>1, <1>13
  <2> HIDE DEF tab
  <2> QED BY <1>1, <1>3, <2>2, <2>5, <2>6, StillLoading, TabStep
<1>14. CASE ~Busy(t)
  <2>1. /\ idle.shown = shown /\ idle.pending = tab.pending /\ idle.put = Sent(shown, tab.rev)
        /\ idle.rev = tab.rev /\ idle.stale = tab.stale
        BY <1>2 DEF TabsAt
  <2>2. idle.put.pc = "sent" /\ idle.put.layout = shown /\ idle.put.rev = tab.rev
        BY <2>1 DEF Sent
  <2>3. idle \in TabsAt(Allowed', edits')
    <3>1. tab \in TabsAt(Allowed', edits')
          BY <1>2, <1>3, TabsMore
    <3>2. Sent(shown, tab.rev) \in PutsAt(Allowed', edits')
          BY <1>2, <1>3, <1>6 DEF PutsAt, Sent, PutPcs
    <3> QED BY <1>3, <1>6, <3>1, <3>2 DEF TabsAt
  <2>4. tab.put.pc = "none" /\ tab.pending = <<>>
        BY <1>2, <1>14 DEF Busy, TabSane
  <2> HIDE DEF idle
  <2>5. ~idle.stale => Follows(idle, accepted)
    <3> SUFFICES ASSUME ~tab.stale PROVE Follows(idle, accepted)
        BY <2>1
    <3>1. NotBehind(tab.shown, tab.rev, accepted) /\ tab.rev <= Len(accepted)
          BY <1>2 DEF TabSane, Follows
    <3>2. NotBehind(shown, tab.rev, accepted)
          BY <1>2, <1>10, <3>1
    <3> QED BY <1>11, <2>1, <2>2, <2>4, <3>2 DEF Follows
  <2>6. \A g \in DOMAIN idle.shown : Carried(idle, g, Loading(t)', accepted)
        BY <2>1, <2>2, <2>4 DEF Carried, Holds
  <2>7. TabSane(idle, Loading(t)', accepted)
        BY <1>2, <2>1, <2>2, <2>4, <2>5, <2>6 DEF TabSane
  <2>8. tabs' = [tabs EXCEPT ![t] = idle]
        BY <1>1, <1>14
  <2> HIDE DEF tab
  <2> QED BY <1>1, <1>3, <2>3, <2>7, <2>8, StillLoading, TabStep
<1> QED BY <1>13, <1>14

(* The same for a step of the tab that starts and ends no read.             *)
LEMMA TabOnly ==
    ASSUME JInv, NEW t \in Tabs, NEW q, tabs' = [tabs EXCEPT ![t] = q],
           UNCHANGED <<lab, gets, edits, accepted>>,
           q \in TabsAt(Allowed, edits), TabSane(q, Loading(t), accepted)
    PROVE  TabsGood'
<1>1. Allowed' = Allowed /\ edits' = edits /\ edits \in Nat
      BY TabFacts DEF Allowed
<1>2. \A u \in Tabs : Loading(u)' = Loading(u)
      BY DEF Loading
<1>3. TabSane(q, Loading(t)', accepted)
      BY <1>2
<1>4. edits <= edits' /\ Allowed \subseteq Allowed' /\ edits' \in Nat
      BY <1>1
<1>5. q \in TabsAt(Allowed', edits')
      BY <1>1
<1> QED BY <1>2, <1>3, <1>4, <1>5, TabStep

(* What the server answers, or the loss of it.                              *)
LEMMA RefusalSane ==
    ASSUME JInv, NEW t \in Tabs, NEW q, q = [tabs[t] EXCEPT !.put = Answer("refused", 0)]
    PROVE  q \in TabsAt(Allowed, edits) /\ TabSane(q, Loading(t), accepted)
<1> DEFINE tab == tabs[t]
<1>1. /\ q.shown = tab.shown /\ q.rev = tab.rev /\ q.pending = tab.pending /\ q.stale = tab.stale
      /\ q.put = Answer("refused", 0)
      BY TabFacts DEF TabsAt
<1>2. q.put.pc = "refused" /\ q.put.rev = 0 /\ q.put \in PutsAt(Allowed, edits)
      BY <1>1, NoLayoutPlaced DEF Answer, PutsAt, PutPcs
<1>3. q \in TabsAt(Allowed, edits)
      BY <1>1, <1>2, TabFacts DEF TabsAt
<1>4. \A h \in DOMAIN q.shown : Carried(q, h, Loading(t), accepted)
      BY <1>2 DEF Carried
<1>5. TabSane(tab, Loading(t), accepted)
      BY TabFacts
<1>6. ~q.stale => Follows(q, accepted)
      BY <1>1, <1>2, <1>5 DEF TabSane, Follows
<1>7. Len(accepted) \in Nat
      BY DEF JInv, Typed
<1>8. q.rev <= Len(accepted) /\ q.put.rev <= Len(accepted)
      BY <1>1, <1>2, <1>5, <1>7 DEF TabSane
<1> QED BY <1>2, <1>3, <1>4, <1>6, <1>8 DEF TabSane

LEMMA LoseGood ==
    ASSUME JInv, NEW t \in Tabs, LosePut(t)
    PROVE  TabsGood'
<1> DEFINE q == [tabs[t] EXCEPT !.put = Answer("refused", 0)]
<1>1. tabs' = [tabs EXCEPT ![t] = q] /\ UNCHANGED <<lab, gets, edits, accepted>>
      BY DEF LosePut
<1>2. q \in TabsAt(Allowed, edits) /\ TabSane(q, Loading(t), accepted)
      BY RefusalSane
<1> HIDE DEF q
<1> QED BY <1>1, <1>2, TabOnly

LEMMA ServeGood ==
    ASSUME JInv, NEW t \in Tabs, ServePut(t)
    PROVE  TabsGood'
<1> DEFINE tab == tabs[t]
<1>1. UNCHANGED <<lab, gets, edits>> /\ Allowed' = Allowed /\ tab.put.pc = "sent"
      BY DEF ServePut, Allowed
<1>2. CASE tabs' = [tabs EXCEPT ![t].put = Answer("refused", 0)] /\ UNCHANGED accepted
  <2> DEFINE q == [tabs[t] EXCEPT !.put = Answer("refused", 0)]
  <2>1. tabs' = [tabs EXCEPT ![t] = q]
        BY <1>2
  <2>2. q \in TabsAt(Allowed, edits) /\ TabSane(q, Loading(t), accepted)
        BY RefusalSane
  <2> HIDE DEF q
  <2> QED BY <1>1, <1>2, <2>1, <2>2, TabOnly
<1>3. CASE /\ tabs' = [tabs EXCEPT ![t].put = Answer("saved", NextRevision(doc.rev))]
           /\ accepted' = Append(accepted, tab.put.layout)
  <2> DEFINE q == [tabs[t] EXCEPT !.put = Answer("saved", Len(accepted) + 1)]
             l == tab.put.layout
             more == Append(accepted, l)
  <2>1. tabs' = [tabs EXCEPT ![t] = q]
        BY <1>3 DEF JInv, IInv, NextRevision
  <2>2. accepted \in Seq(Placed(Allowed, edits)) /\ l \in Placed(Allowed, edits)
        BY TabFacts DEF JInv, Typed
  <2>3. /\ Len(accepted) \in Nat /\ Len(more) = Len(accepted) + 1 /\ more[Len(accepted) + 1] = l
        /\ DOMAIN accepted = 1 .. Len(accepted) /\ DOMAIN more = 1 .. Len(accepted) + 1
        /\ \A i \in 1 .. Len(accepted) : more[i] = accepted[i]
        BY <2>2
  <2>4. /\ q.shown = tab.shown /\ q.rev = tab.rev /\ q.pending = tab.pending /\ q.stale = tab.stale
        /\ q.put = Answer("saved", Len(accepted) + 1)
        BY TabFacts DEF TabsAt
  <2>5. q.put.pc = "saved" /\ q.put.rev = Len(accepted) + 1 /\ q.put \in PutsAt(Allowed, edits)
        BY <2>3, <2>4, NoLayoutPlaced DEF Answer, PutsAt, PutPcs
  <2>6. q \in TabsAt(Allowed, edits)
        BY <2>4, <2>5, TabFacts DEF TabsAt
  <2>7. TabSane(tab, Loading(t), accepted) /\ TabSane(tab, Loading(t), more)
        BY <2>2, TabFacts, SaneAppend
  <2> HIDE DEF q, l
  <2>8. ASSUME NEW h \in DOMAIN q.shown PROVE Carried(q, h, Loading(t), more)
    <3>1. Carried(tab, h, Loading(t), more)
          BY <2>4, <2>7 DEF TabSane
    <3>2. CASE tab.pending = <<>> /\ Holds(l, h, tab.shown[h])
          BY <2>3, <2>4, <3>2 DEF Carried, Saved
    <3> QED BY <1>1, <2>4, <2>5, <3>1, <3>2 DEF Carried, l
  <2>9. ASSUME ~q.stale PROVE Follows(q, more)
    <3>1. Follows(tab, more)
          BY <2>4, <2>7, <2>9 DEF TabSane
    <3>2. \A m : NotOlder(m, l) => NotBehind(m, Len(accepted) + 1, more)
          BY <2>3 DEF NotOlder, NotBehind
    <3> QED BY <1>1, <2>4, <2>5, <3>1, <3>2 DEF Follows, l
  <2>10. TabSane(q, Loading(t)', more)
    <3>1. q.rev <= Len(more) /\ q.put.rev <= Len(more)
          BY <2>3, <2>4, <2>5, <2>7 DEF TabSane
    <3>2. Loading(t)' = Loading(t)
          BY <1>1 DEF Loading
    <3> QED BY <2>5, <2>8, <2>9, <3>1, <3>2 DEF TabSane
  <2>11. accepted' = more
        BY <1>3 DEF l
  <2> HIDE DEF more
  <2>12. ASSUME NEW u \in Tabs PROVE TabSane(tabs'[u], Loading(u)', more)
    <3>1. CASE u = t
          BY <2>1, <2>10, <3>1 DEF JInv, TabsGood
    <3>2. CASE u # t
      <4>1. tabs'[u] = tabs[u]
            BY <2>1, <3>2 DEF JInv, TabsGood
      <4>2. TabSane(tabs[u], Loading(u), more)
            BY <2>2, TabFacts, SaneAppend DEF more
      <4>3. Loading(u)' = Loading(u)
            BY <1>1 DEF Loading
      <4> QED BY <4>1, <4>2, <4>3
    <3> QED BY <3>1, <3>2
  <2>13. tabs' \in [Tabs -> TabsAt(Allowed, edits)]
        BY <2>1, <2>6 DEF JInv, TabsGood
  <2> QED BY <1>1, <2>11, <2>12, <2>13 DEF TabsGood
<1> QED BY <1>2, <1>3 DEF ServePut

(* The answer's revision is the one what is pending goes out with.          *)
LEMMA SavedGood ==
    ASSUME JInv, NEW t \in Tabs, PutSaved(t)
    PROVE  TabsGood'
<1> DEFINE tab == tabs[t]
           q == Drained(tab)
<1>1. /\ UNCHANGED <<lab, gets, edits, accepted>> /\ Allowed' = Allowed /\ edits \in Nat
      /\ tab.put.pc = "saved" /\ tabs' = [tabs EXCEPT ![t] = q]
      BY TabFacts DEF PutSaved, Allowed
<1>2. /\ q.shown = tab.shown /\ q.rev = tab.put.rev /\ q.pending = <<>> /\ q.stale = tab.stale
      /\ tab.pending = <<>> => q.put = NoPut
      /\ tab.pending # <<>> => q.put = Sent(tab.pending[1], tab.put.rev)
      BY TabFacts DEF Drained, TabsAt
<1>3. TabSane(tab, Loading(t), accepted) /\ tab.put.rev \in Nat
      BY TabFacts
<1>4. tab.pending # <<>> => tab.pending[1] \in Placed(Allowed, edits)
      BY TabFacts
<1>5. q.put \in PutsAt(Allowed, edits)
      BY <1>2, <1>3, <1>4, NoLayoutPlaced DEF NoPut, Sent, PutsAt, PutPcs
<1>6. q \in TabsAt(Allowed, edits)
  <2>1. q = [tab EXCEPT !.rev = q.rev, !.pending = q.pending, !.put = q.put]
        BY <1>2, TabFacts DEF Drained, TabsAt
  <2>2. q.pending \in QueueAt(Allowed, edits) /\ q.rev \in Nat
        BY <1>2, <1>3 DEF QueueAt
  <2> HIDE DEF q
  <2> QED BY <1>5, <2>1, <2>2, TabFacts DEF TabsAt
<1> HIDE DEF q
<1>7. CASE tab.pending = <<>>
  <2>1. q.put.pc = "none" /\ q.put.rev = 0
        BY <1>2, <1>7 DEF NoPut
  <2>2. \A h \in DOMAIN q.shown : Carried(q, h, Loading(t), accepted)
        BY <1>1, <1>2, <1>3, <1>7, <2>1 DEF TabSane, Carried
  <2>3. ~q.stale => Follows(q, accepted)
        BY <1>1, <1>2, <1>3, <1>7, <2>1 DEF TabSane, Follows
  <2>4. 0 <= Len(accepted)
        BY DEF JInv, Typed
  <2>5. TabSane(q, Loading(t), accepted)
        BY <1>1, <1>2, <1>3, <2>1, <2>2, <2>3, <2>4 DEF TabSane
  <2> QED BY <1>1, <1>6, <2>5, TabOnly
<1>8. CASE tab.pending # <<>>
  <2>1. q.put.pc = "sent" /\ q.put.rev = tab.put.rev /\ q.put.layout = tab.pending[1]
        BY <1>2, <1>8 DEF Sent
  <2>2. \A h \in DOMAIN q.shown : Carried(q, h, Loading(t), accepted)
        BY <1>1, <1>2, <1>3, <1>8, <2>1 DEF TabSane, Carried
  <2>3. ~q.stale => Follows(q, accepted)
        BY <1>1, <1>2, <1>3, <1>8, <2>1 DEF TabSane, Follows
  <2>4. TabSane(q, Loading(t), accepted)
        BY <1>1, <1>2, <1>3, <2>1, <2>2, <2>3 DEF TabSane
  <2> QED BY <1>1, <1>6, <2>4, TabOnly
<1> QED BY <1>7, <1>8

(* A refused save takes its drags with it, and the tab loads.               *)
LEMMA RefusedGood ==
    ASSUME JInv, NEW t \in Tabs, PutRefused(t)
    PROVE  TabsGood'
<1> DEFINE tab == tabs[t]
           q == [tab EXCEPT !.put = NoPut, !.pending = <<>>]
<1>1. /\ UNCHANGED <<lab, edits, accepted>> /\ Allowed' = Allowed /\ edits \in Nat
      /\ tabs' = [tabs EXCEPT ![t] = q]
      BY TabFacts DEF PutRefused, Allowed
<1>2. PICK s \in Reloads : gets' = [gets EXCEPT ![t][s] = Get("sent", NoDoc)]
      BY DEF PutRefused, Reloaded, NewGet
<1>3. Loading(t)' /\ \A u \in Tabs : u # t /\ Loading(u) => Loading(u)'
  <2> DEFINE d == NoDoc
  <2>1. s \in Slots /\ s \in Reloads /\ gets' = [gets EXCEPT ![t][s] = Get("sent", d)]
        BY <1>2 DEF Slots
  <2> HIDE DEF d
  <2>2. \A u \in Tabs : u # t /\ Loading(u) => Loading(u)'
        BY <2>1, LoadingStep
  <2>3. Loading(t)'
        BY <2>1 DEF JInv, IInv, Shapes, Get, Loading
  <2> QED BY <2>1, <2>2, <2>3
<1>4. /\ q.shown = tab.shown /\ q.rev = tab.rev /\ q.pending = <<>> /\ q.stale = tab.stale
      /\ q.put = NoPut
      BY TabFacts DEF TabsAt
<1>5. q.put.pc = "none" /\ q.put.rev = 0 /\ q.put \in PutsAt(Allowed, edits)
      BY <1>4, NoLayoutPlaced DEF NoPut, PutsAt, PutPcs
<1>6. q \in TabsAt(Allowed, edits)
      BY <1>4, <1>5, TabFacts DEF TabsAt, QueueAt
<1>7. TabSane(tab, Loading(t), accepted) /\ 0 <= Len(accepted)
      BY TabFacts DEF JInv, Typed
<1> HIDE DEF q
<1>8. \A h \in DOMAIN q.shown : Carried(q, h, Loading(t)', accepted)
      BY <1>3, <1>5 DEF Carried
<1>9. ~q.stale => Follows(q, accepted)
      BY <1>4, <1>5, <1>7 DEF TabSane, Follows
<1>10. TabSane(q, Loading(t)', accepted)
      BY <1>4, <1>5, <1>7, <1>8, <1>9 DEF TabSane
<1>11. edits <= edits' /\ Allowed \subseteq Allowed' /\ edits' \in Nat
      BY <1>1
<1>12. q \in TabsAt(Allowed', edits')
      BY <1>1, <1>6
<1> QED BY <1>1, <1>3, <1>10, <1>11, <1>12, TabStep

(* What a tab that has loaded shows is what was accepted at the revision of *)
(* the document it loaded, but for extensions.                              *)
LEMMA LoadedSane ==
    ASSUME JInv, NEW t \in Tabs, NEW d, Good(d, accepted, Allowed, edits), Agrees(d, accepted),
           NEW loading
    PROVE  Loaded(tabs[t], d) \in TabsAt(Allowed, edits) /\ TabSane(Loaded(tabs[t], d), loading, accepted)
<1> DEFINE tab == tabs[t]
           q == Loaded(tab, d)
<1>1. /\ q.shown = Nodes(d) /\ q.put = tab.put /\ q.pending = tab.pending /\ q.error = FALSE
      /\ Busy(t) => q.stale = TRUE /\ q.rev = tab.rev
      /\ ~Busy(t) => q.stale = FALSE /\ q.rev = d.rev
      /\ q = [tab EXCEPT !.shown = q.shown, !.rev = q.rev, !.error = q.error, !.stale = q.stale]
      BY TabFacts DEF TabsAt, Loaded, Busy
<1>2. d \in DocsAt(Allowed, edits) /\ d.rev \in Nat /\ d.rev <= Len(accepted)
      BY DEF Good, Agrees, DocsAt
<1>3. /\ Nodes(d) \in Placed(Allowed, edits)
      /\ \A h \in DOMAIN Nodes(d) : \/ Nodes(d)[h] = 0
                                    \/ h \in DOMAIN d.layout /\ Nodes(d)[h] = d.layout[h]
      BY <1>2, TabFacts, NodesPlaced
<1>4. q \in TabsAt(Allowed, edits)
  <2>1. q.shown \in Placed(Allowed, edits) /\ q.rev \in Nat /\ q.error \in BOOLEAN /\ q.stale \in BOOLEAN
        BY <1>1, <1>2, <1>3, TabFacts
  <2> HIDE DEF q
  <2> QED BY <1>1, <2>1, TabFacts DEF TabsAt
<1> HIDE DEF q
<1>5. ASSUME NEW h \in DOMAIN q.shown PROVE Carried(q, h, loading, accepted)
  <2>1. CASE q.shown[h] = 0
        BY <2>1 DEF Carried, Saved
  <2>2. CASE h \in DOMAIN d.layout /\ q.shown[h] = d.layout[h]
    <3>1. d.rev \in DOMAIN accepted /\ Holds(accepted[d.rev], h, q.shown[h])
      <4>1. d.rev > 0 /\ h \in DOMAIN accepted[d.rev] /\ d.layout[h] = accepted[d.rev][h]
            BY <2>2 DEF Agrees
      <4>2. accepted \in Seq(Placed(Allowed, edits))
            BY DEF JInv, Typed
      <4> QED BY <1>2, <2>2, <4>1, <4>2 DEF Holds
    <3> QED BY <3>1 DEF Carried, Saved
  <2> QED BY <1>1, <1>3, <1>5, <2>1, <2>2
<1>6. TabSane(tab, Loading(t), accepted)
      BY TabFacts
<1>7. ASSUME Busy(t) PROVE TabSane(q, loading, accepted)
  <2>1. /\ q.rev <= Len(accepted) /\ q.put.rev <= Len(accepted)
        /\ q.put.pc = "sent" => q.put.rev = q.rev
        /\ q.put.pc = "none" => q.pending = <<>>
        BY <1>1, <1>6, <1>7 DEF TabSane, Busy
  <2>2. ~q.stale => Follows(q, accepted)
        BY <1>1, <1>7
  <2> QED BY <1>5, <2>1, <2>2 DEF TabSane
<1>8. ASSUME ~Busy(t) PROVE TabSane(q, loading, accepted)
  <2>1. q.put.pc = "none" /\ q.pending = <<>>
        BY <1>1, <1>6, <1>8 DEF TabSane, Busy
  <2>2. NotBehind(q.shown, q.rev, accepted)
    <3> SUFFICES ASSUME d.rev > 0, NEW h \in DOMAIN Nodes(d) \cap DOMAIN accepted[d.rev]
                 PROVE  \/ Nodes(d)[h] >= accepted[d.rev][h]
                        \/ h \in ExtensionHosts /\ Nodes(d)[h] = 0
        BY <1>1, <1>8 DEF NotBehind
    <3>1. CASE h \in DOMAIN d.layout
      <4>1. Nodes(d)[h] = d.layout[h] /\ d.layout[h] = accepted[d.rev][h]
            BY <3>1 DEF Nodes, Agrees
      <4>2. Nodes(d)[h] \in 0 .. edits
            BY <1>3, PlacedIs
      <4> QED BY <4>1, <4>2, TabFacts
    <3>2. CASE h \notin DOMAIN d.layout
      <4>1. Nodes(d)[h] = 0
            BY <3>2 DEF Nodes
      <4>2. h \in ExtensionHosts
            BY <3>2 DEF Good, Spares
      <4> QED BY <4>1, <4>2
    <3> QED BY <3>1, <3>2
  <2>3. Follows(q, accepted)
        BY <2>1, <2>2 DEF Follows
  <2>4. /\ q.rev <= Len(accepted) /\ q.put.rev <= Len(accepted)
        /\ q.put.pc = "sent" => q.put.rev = q.rev
        /\ q.put.pc = "none" => q.pending = <<>>
        BY <1>1, <1>2, <1>6, <1>8, <2>1 DEF TabSane
  <2> QED BY <1>5, <2>3, <2>4 DEF TabSane
<1> QED BY <1>4, <1>7, <1>8 DEF q

LEMMA AnsweredGood ==
    ASSUME JInv, NEW t \in Tabs, NEW s \in Slots, GetAnswered(t, s)
    PROVE  TabsGood'
<1> DEFINE q == Loaded(tabs[t], gets[t][s].doc)
<1>1. /\ UNCHANGED <<lab, edits, accepted>> /\ tabs' = [tabs EXCEPT ![t] = q]
      /\ gets' = [gets EXCEPT ![t][s] = Get("idle", NoDoc)]
      BY DEF GetAnswered, NoGet
<1>2. Good(gets[t][s].doc, accepted, Allowed, edits) /\ Agrees(gets[t][s].doc, accepted)
      BY DEF JInv, IInv, Snapshots, DocsGood
<1>3. q \in TabsAt(Allowed, edits) /\ TabSane(q, Loading(t)', accepted)
      BY <1>2, LoadedSane
<1> HIDE DEF q
<1>4. \A u \in Tabs : u # t /\ Loading(u) => Loading(u)'
      BY <1>1, LoadingStep
<1>5. Allowed' = Allowed /\ edits \in Nat /\ edits <= edits
      BY <1>1, TabFacts DEF Allowed
<1>6. q \in TabsAt(Allowed', edits') /\ edits' \in Nat /\ edits <= edits' /\ Allowed \subseteq Allowed'
      BY <1>1, <1>3, <1>5
<1> QED BY <1>1, <1>3, <1>4, <1>6, TabStep

(* A failed read leaves an error on the screen.                             *)
LEMMA FailedGood ==
    ASSUME JInv, NEW t \in Tabs, NEW s \in Slots, GetFailed(t, s)
    PROVE  TabsGood'
<1> DEFINE tab == tabs[t]
           q == [tab EXCEPT !.error = TRUE]
<1>1. /\ UNCHANGED <<lab, edits, accepted>> /\ tabs' = [tabs EXCEPT ![t] = q]
      /\ gets' = [gets EXCEPT ![t][s] = Get("idle", NoDoc)]
      BY DEF GetFailed, NoGet
<1>2. /\ q.shown = tab.shown /\ q.rev = tab.rev /\ q.pending = tab.pending /\ q.stale = tab.stale
      /\ q.put = tab.put /\ q.error = TRUE /\ q \in TabsAt(Allowed, edits)
      BY TabFacts DEF TabsAt
<1> HIDE DEF q
<1>3. TabSane(tab, Loading(t), accepted)
      BY TabFacts
<1>4. \A h \in DOMAIN q.shown : Carried(q, h, Loading(t)', accepted)
      BY <1>2, <1>3 DEF TabSane, Carried
<1>5. ~q.stale => Follows(q, accepted)
      BY <1>2, <1>3 DEF TabSane, Follows
<1>6. TabSane(q, Loading(t)', accepted)
      BY <1>2, <1>3, <1>4, <1>5 DEF TabSane
<1>7. \A u \in Tabs : u # t /\ Loading(u) => Loading(u)'
      BY <1>1, LoadingStep
<1>8. Allowed' = Allowed /\ edits \in Nat /\ edits <= edits
      BY <1>1, TabFacts DEF Allowed
<1>9. q \in TabsAt(Allowed', edits') /\ edits' \in Nat /\ edits <= edits' /\ Allowed \subseteq Allowed'
      BY <1>1, <1>2, <1>8
<1> QED BY <1>1, <1>6, <1>7, <1>9, TabStep

(* That a read is due says nothing of what is shown.                        *)
LEMMA DueSane ==
    ASSUME JInv, NEW t \in Tabs, NEW due \in BOOLEAN, NEW q, q = [tabs[t] EXCEPT !.due = due]
    PROVE  q \in TabsAt(Allowed, edits) /\ TabSane(q, Loading(t), accepted)
<1>1. /\ q.shown = tabs[t].shown /\ q.rev = tabs[t].rev /\ q.pending = tabs[t].pending
      /\ q.stale = tabs[t].stale /\ q.put = tabs[t].put /\ q.error = tabs[t].error
      /\ q \in TabsAt(Allowed, edits)
      BY TabFacts DEF TabsAt
<1>2. TabSane(tabs[t], Loading(t), accepted)
      BY TabFacts
<1>3. \A h : Carried(tabs[t], h, Loading(t), accepted) => Carried(q, h, Loading(t), accepted)
      BY <1>1 DEF Carried
<1>4. Follows(tabs[t], accepted) => Follows(q, accepted)
      BY <1>1 DEF Follows
<1> QED BY <1>1, <1>2, <1>3, <1>4 DEF TabSane

LEMMA RefreshGood ==
    ASSUME JInv, NEW t \in Tabs, Refresh(t)
    PROVE  TabsGood'
<1> DEFINE q == [tabs[t] EXCEPT !.due = FALSE]
<1>1. /\ UNCHANGED <<lab, edits, accepted>> /\ tabs' = [tabs EXCEPT ![t] = q]
      /\ gets' = [gets EXCEPT ![t]["effect"] = Get("sent", NoDoc)]
      BY DEF Refresh, NewGet
<1>2. q \in TabsAt(Allowed, edits) /\ TabSane(q, Loading(t), accepted)
      BY DueSane
<1> HIDE DEF q
<1>3. \A u \in Tabs : Loading(u) => Loading(u)'
  <2> DEFINE d == NoDoc
             pc == "sent"
  <2>1. gets' = [gets EXCEPT ![t]["effect"] = Get(pc, d)] /\ "effect" \in Slots
        BY <1>1 DEF Slots
  <2>2. pc # "idle"
        OBVIOUS
  <2> HIDE DEF d, pc
  <2> QED BY <2>1, <2>2, LoadsOn
<1>4. Loading(t) \in BOOLEAN /\ Loading(t)' \in BOOLEAN
      BY DEF Loading
<1>5. TabSane(q, Loading(t)', accepted)
      BY <1>2, <1>3, <1>4, SaneLoading
<1>6. Allowed' = Allowed /\ edits \in Nat /\ edits <= edits
      BY <1>1, TabFacts DEF Allowed
<1>7. q \in TabsAt(Allowed', edits') /\ edits' \in Nat /\ edits <= edits' /\ Allowed \subseteq Allowed'
      BY <1>1, <1>2, <1>6
<1> QED BY <1>1, <1>3, <1>5, <1>7, TabStep

LEMMA AnnouncedGood ==
    ASSUME JInv, AnnounceCheck
    PROVE  TabsGood'
<1>1. UNCHANGED <<lab, gets, edits, accepted>> /\ tabs' = [t \in Tabs |-> [tabs[t] EXCEPT !.due = TRUE]]
      BY DEF AnnounceCheck
<1>2. \A t \in Tabs : tabs'[t] \in TabsAt(Allowed, edits) /\ TabSane(tabs'[t], Loading(t), accepted)
      BY <1>1, DueSane
<1>3. Allowed' = Allowed /\ \A t \in Tabs : Loading(t)' = Loading(t)
      BY <1>1 DEF Allowed, Loading
<1>4. tabs' \in [Tabs -> TabsAt(Allowed', edits')]
      BY <1>1, <1>2, <1>3
<1>5. \A t \in Tabs : TabSane(tabs[t]', Loading(t)', accepted')
      BY <1>1, <1>2, <1>3
<1> QED BY <1>4, <1>5 DEF TabsGood

(* The other steps leave the tabs alone.                                    *)
LEMMA ReadsGood ==
    ASSUME JInv, NEW t \in Tabs, NEW s \in Slots, ServeGet(t, s) \/ Repair(t, s)
    PROVE  TabsGood'
<1>1. UNCHANGED <<lab, edits, tabs, accepted>>
      BY DEF ServeGet, Repair
<1>2. PICK pc, d : gets' = [gets EXCEPT ![t][s] = Get(pc, d)] /\ pc # "idle"
      BY DEF ServeGet, Repair
<1>3. \A u \in Tabs : Loading(u) => Loading(u)'
      BY <1>2, LoadsOn
<1>4. Allowed \subseteq Allowed' /\ edits' \in Nat /\ edits <= edits'
      BY <1>1, TabFacts DEF Allowed
<1> QED BY <1>1, <1>3, <1>4, TabsStay

LEMMA OthersGood ==
    ASSUME JInv, UNCHANGED <<gets, tabs, edits, accepted>>, lab' = TRUE \/ UNCHANGED lab
    PROVE  TabsGood'
<1>1. Allowed \subseteq Allowed' /\ edits \in Nat
      BY DEF Allowed, JInv, Typed
<1>2. \A u \in Tabs : Loading(u) => Loading(u)'
      BY DEF Loading
<1> QED BY <1>1, <1>2, TabsStay

-----------------------------------------------------------------------------
(* Documents, step by step.                                                 *)
LEMMA TurnGood ==
    ASSUME JInv,
           \/ ReadCheck \/ BackfillKeys \/ AnnounceCheck \/ Overlay \/ CancelTurn
           \/ ListExtensions \/ ReadScaffold \/ \E w \in Writers : Write(w)
    PROVE  DocsGood'
<1>a. Agrees(doc, accepted) /\ Good(doc, accepted, Allowed, edits)
      BY DEF JInv, IInv, Snapshots, DocsGood
<1>n. Good(NoDoc, accepted, Allowed, edits)
      BY NoDocGood DEF NoDoc
<1>w. \A w \in Writers : /\ Agrees(writers[w].doc, accepted)
                         /\ Good(writers[w].doc, accepted, Allowed, edits)
      BY DEF JInv, IInv, Snapshots, DocsGood
<1>t. "turn" \in Writers /\ "scaffold" \in Writers /\ "idle" # "listing" /\ "check" # "listing"
      BY DEF Writers
<1>p. /\ "idle" \in WriterPcs /\ "check" \in WriterPcs /\ "announced" \in WriterPcs
      /\ "listing" \in WriterPcs /\ "write" \in WriterPcs /\ "done" \in WriterPcs
      BY DEF WriterPcs
<1>1. CASE ReadCheck
      BY <1>1, <1>a, <1>t, <1>p, WriterGood DEF ReadCheck
<1>2. CASE BackfillKeys
      BY <1>2, <1>a, <1>t, <1>w, <1>p, WriterGood DEF BackfillKeys
<1>3. CASE AnnounceCheck
      BY <1>3, <1>n, <1>t, <1>w, <1>p, WriterGood DEF AnnounceCheck
<1>4. CASE Overlay
  <2>1. CASE writers' = [writers EXCEPT !["turn"] = Held("listing", doc, SeedTopology)]
    <3>1. SeedTopology \subseteq Allowed /\ Spares(doc.layout, SeedTopology)
          BY <1>a, SeedSpares DEF Good
    <3> QED BY <1>4, <2>1, <3>1, <1>a, <1>t, <1>p, WriterGood DEF Overlay
  <2>2. CASE writers' = [writers EXCEPT !["turn"] = Held("write", doc, {})]
        BY <1>4, <2>2, <1>a, <1>t, <1>p, WriterGood DEF Overlay
  <2>3. CASE writers' = [writers EXCEPT !["turn"] = Held("idle", NoDoc, {})]
        BY <1>4, <2>3, <1>n, <1>t, <1>p, WriterGood DEF Overlay
  <2> QED BY <1>4, <2>1, <2>2, <2>3 DEF Overlay, Waiting
<1>5. CASE CancelTurn
      BY <1>5, <1>n, <1>t, <1>p, WriterGood DEF CancelTurn, Waiting
<1>6. CASE ListExtensions
  <2> DEFINE d == writers["turn"].doc
             seed == writers["turn"].seed
  <2>1. PICK nodes \in SUBSET ExtensionHosts :
            writers' = [writers EXCEPT !["turn"] = Held("write", MergeReseed(d, seed \cup nodes), {})]
        BY <1>6 DEF ListExtensions
  <2>2. seed \subseteq Allowed /\ Spares(d.layout, seed)
        BY <1>6 DEF ListExtensions, JInv, DocsGood
  <2>3. seed \cup nodes \in SUBSET Allowed /\ Spares(d.layout, seed \cup nodes)
        BY <2>2 DEF Allowed, Spares
  <2>4. Good(MergeReseed(d, seed \cup nodes), accepted, Allowed, edits)
        BY <2>3, <1>t, <1>w, MergedGood
  <2> QED BY <1>6, <2>1, <2>4, <1>t, <1>p, WriterGood DEF ListExtensions
<1>7. CASE ReadScaffold
  <2>1. Good(MergeReseed(doc, SeedTopology), accepted, Allowed, edits)
        BY <1>a, SeedSpares, MergedGood DEF Good
  <2> QED BY <1>7, <2>1, <1>t, <1>p, WriterGood DEF ReadScaffold
<1>8. ASSUME NEW w \in Writers, Write(w) PROVE DocsGood'
  <2>1. PICK pc \in {"idle", "done"} : writers' = [writers EXCEPT ![w] = Held(pc, NoDoc, {})]
        BY <1>8 DEF Write
  <2>2. pc \in WriterPcs /\ pc # "listing"
        BY DEF WriterPcs
  <2>3. \E d : Agrees(d, accepted) /\ Good(d, accepted, Allowed, edits) /\ doc' = Stored(d)
        BY <1>8, <1>w DEF Write
  <2>4. UNCHANGED <<gets, accepted, edits, lab>>
        BY <1>8 DEF Write
  <2> QED BY <2>1, <2>2, <2>3, <2>4, <1>n, WriterGood
<1> QED BY <1>1, <1>2, <1>3, <1>4, <1>5, <1>6, <1>7, <1>8

LEMMA RepairGood ==
    ASSUME JInv, NEW t \in Tabs, NEW s \in Slots, Repair(t, s)
    PROVE  DocsGood'
<1> DEFINE read     == gets[t][s].doc
           hosts    == SeedTopology \cup read.hosts
           repaired == IF NoConfigHosts(read) THEN MergeReseed(read, hosts) ELSE read
           answer   == IF lab THEN repaired ELSE read
<1>1. Good(read, accepted, Allowed, edits) /\ Agrees(read, accepted)
      BY DEF JInv, IInv, Snapshots, DocsGood
<1>2. Good(MergeReseed(read, hosts), accepted, Allowed, edits)
  <2>1. read \in DocsAt(Allowed, edits) /\ read.hosts \subseteq Allowed
        BY <1>1 DEF Good, DocsAt
  <2>2. SeedTopology \subseteq Allowed /\ Spares(read.layout, SeedTopology)
        BY <2>1, SeedSpares
  <2>3. hosts \in SUBSET Allowed /\ Spares(read.layout, hosts)
        BY <2>1, <2>2 DEF Spares
  <2> HIDE DEF hosts, read
  <2> QED BY <1>1, <2>3, MergedGood
<1>3. Agrees(MergeReseed(read, hosts), accepted)
      BY <1>1, MergedAgrees
<1>4. /\ doc' = IF lab THEN Stored(repaired) ELSE doc
      /\ gets' = [gets EXCEPT ![t][s] = Get("answered", answer)]
      /\ UNCHANGED <<lab, edits, writers, accepted>>
      BY DEF Repair
<1> HIDE DEF hosts, read
<1>5. /\ Good(repaired, accepted, Allowed, edits) /\ Agrees(repaired, accepted)
      /\ Good(answer, accepted, Allowed, edits)
      BY <1>1, <1>2, <1>3
<1>6. "answered" \in GetPcs
      BY DEF GetPcs
<1> HIDE DEF repaired, answer
<1> QED BY <1>4, <1>5, <1>6, GetGood

LEMMA AcceptedGood ==
    ASSUME JInv, NEW t \in Tabs, ServePut(t)
    PROVE  DocsGood'
<1> DEFINE l == tabs[t].put.layout
           more == Append(accepted, l)
<1>1. UNCHANGED <<lab, writers, gets, edits>> /\ Allowed' = Allowed
      BY DEF ServePut, Allowed
<1>2. CASE UNCHANGED <<doc, accepted>>
      BY <1>1, <1>2 DEF JInv, DocsGood
<1>3. CASE doc' = Row(doc.hosts, l, NextRevision(doc.rev)) /\ accepted' = more
  <2>1. accepted \in Seq(Placed(Allowed, edits)) /\ l \in Placed(Allowed, edits)
        BY TabFacts DEF JInv, Typed
  <2>2. /\ Len(accepted) \in Nat /\ more[Len(accepted) + 1] = l
        /\ \A i \in 1 .. Len(accepted) : more[i] = accepted[i]
        BY <2>1
  <2>3. accepted' = more
        BY <1>3
  <2> HIDE DEF l, more
  <2>4. ASSUME NEW d, Good(d, accepted, Allowed, edits), Agrees(d, accepted)
        PROVE  Good(d, more, Allowed, edits)
    <3>1. d.rev \in Nat /\ d.rev <= Len(accepted)
          BY <2>4 DEF Agrees
    <3> QED BY <2>2, <2>4, <3>1 DEF Good
  <2>5. Good(doc', more, Allowed, edits)
    <3>1. doc' = Row(doc.hosts, l, Len(accepted) + 1) /\ doc.hosts \in SUBSET Allowed
          BY <1>3 DEF NextRevision, JInv, IInv, DocsGood, Good, DocsAt
    <3>2. doc'.hosts = doc.hosts /\ doc'.layout = l /\ doc'.rev = Len(accepted) + 1
          BY <3>1 DEF Row
    <3>3. doc' \in DocsAt(Allowed, edits)
          BY <2>1, <2>2, <3>1 DEF DocsAt, Row
    <3> QED BY <2>2, <3>2, <3>3 DEF Good, Spares
  <2>6. \A w \in Writers : Good(writers[w].doc, more, Allowed, edits)
        BY <2>4 DEF JInv, IInv, Snapshots, DocsGood
  <2>7. \A u \in Tabs, s \in Slots : Good(gets[u][s].doc, more, Allowed, edits)
        BY <2>4 DEF JInv, IInv, Snapshots, DocsGood
  <2> QED BY <1>1, <2>3, <2>5, <2>6, <2>7 DEF JInv, DocsGood
<1> QED BY <1>2, <1>3 DEF ServePut

LEMMA RouteGood ==
    ASSUME JInv, NEW t \in Tabs, TabNext(t)
    PROVE  DocsGood'
<1>a. Good(doc, accepted, Allowed, edits)
      BY DEF JInv, DocsGood
<1>n. Good(NoDoc, accepted, Allowed, edits)
      BY NoDocGood DEF NoDoc
<1>p. "idle" \in GetPcs /\ "sent" \in GetPcs /\ "repair" \in GetPcs /\ "answered" \in GetPcs
      BY DEF GetPcs
<1>1. ASSUME NEW h \in Dragged, Drag(t, h) PROVE DocsGood'
  <2>1. UNCHANGED <<doc, writers, gets, accepted>> /\ edits' \in Nat /\ edits <= edits' /\ Allowed' = Allowed
        BY <1>1, TabFacts DEF Drag, Allowed
  <2> QED BY <2>1, MoreGood
<1>2. CASE PutSaved(t) \/ LosePut(t)
  <2>1. UNCHANGED <<doc, writers, gets, accepted, edits>> /\ edits \in Nat /\ Allowed' = Allowed
        BY <1>2, TabFacts DEF PutSaved, LosePut, Allowed
  <2> QED BY <2>1, MoreGood
<1>3. CASE PutRefused(t)
  <2>1. PICK s \in Reloads : gets' = [gets EXCEPT ![t][s] = Get("sent", NoDoc)]
        BY <1>3 DEF PutRefused, Reloaded, NewGet
  <2>2. s \in Slots /\ UNCHANGED <<doc, writers, accepted, edits, lab>>
        BY <1>3, <2>1 DEF PutRefused, Slots
  <2> QED BY <1>n, <1>p, <2>1, <2>2, GetGood
<1>4. CASE ServePut(t)
      BY <1>4, AcceptedGood
<1>5. CASE Refresh(t)
      BY <1>5, <1>n, <1>p, GetGood DEF Refresh, NewGet, Slots
<1>6. ASSUME NEW s \in Slots, ServeGet(t, s) PROVE DocsGood'
  <2>1. PICK pc \in {"repair", "answered"} : gets' = [gets EXCEPT ![t][s] = Get(pc, doc)]
        BY <1>6 DEF ServeGet
  <2>2. pc \in GetPcs
        BY DEF GetPcs
  <2> QED BY <1>6, <1>a, <2>1, <2>2, GetGood DEF ServeGet
<1>7. ASSUME NEW s \in Slots, Repair(t, s) PROVE DocsGood'
      BY <1>7, RepairGood
<1>8. ASSUME NEW s \in Slots, GetAnswered(t, s) \/ GetFailed(t, s) PROVE DocsGood'
      BY <1>8, <1>n, <1>p, GetGood DEF GetAnswered, GetFailed, NoGet
<1> QED BY <1>1, <1>2, <1>3, <1>4, <1>5, <1>6, <1>7, <1>8 DEF TabNext

-----------------------------------------------------------------------------
(* Counting.  A layout that is accepted, being sent or waiting behind the   *)
(* one that is sent has a drag of its own.                                  *)
One(b) == IF b THEN 1 ELSE 0

LEMMA Counting ==
    ASSUME NEW S, IsFiniteSet(S), NEW e, NEW b \in BOOLEAN, NEW T,
           T = IF b THEN S \cup {e} ELSE S \ {e}
    PROVE  /\ IsFiniteSet(T) /\ Cardinality(S) \in Nat /\ Cardinality(T) \in Nat
           /\ Cardinality(T) + One(e \in S) = Cardinality(S) + One(b)
<1>1. Cardinality(S) \in Nat
      BY FS_CardinalityType
<1>2. CASE b
  <2>1. T = S \cup {e}
        BY <1>2
  <2>2. /\ IsFiniteSet(T)
        /\ Cardinality(T) = IF e \in S THEN Cardinality(S) ELSE Cardinality(S) + 1
        BY <2>1, FS_AddElement
  <2> QED BY <1>1, <1>2, <2>2 DEF One
<1>3. CASE ~b
  <2>1. T = S \ {e}
        BY <1>3
  <2>2. /\ IsFiniteSet(T)
        /\ Cardinality(T) = IF e \in S THEN Cardinality(S) - 1 ELSE Cardinality(S)
        BY <2>1, FS_RemoveElement
  <2>3. Cardinality(T) \in Nat
        BY <2>2, FS_CardinalityType
  <2> QED BY <1>1, <1>3, <2>2, <2>3 DEF One
<1> QED BY <1>2, <1>3

\* The layouts a tab has on their way.
Sends(tab) == IF tab.put.pc = "sent" THEN 1 ELSE 0
Waits(tab) == IF tab.pending # <<>> THEN 1 ELSE 0

LEMMA CountedStep ==
    ASSUME JInv, NEW t \in Tabs, NEW q, tabs' = [tabs EXCEPT ![t] = q],
           Len(accepted') \in Nat, edits' \in Nat,
           Len(accepted') + Sends(q) + Waits(q) + edits
             <= Len(accepted) + Sends(tabs[t]) + Waits(tabs[t]) + edits'
    PROVE  Counted'
<1> DEFINE sent == q.put.pc = "sent"
           waits == q.pending # <<>>
<1>1. /\ tabs'[t] = q /\ DOMAIN tabs = Tabs
      /\ \A u \in Tabs : u # t => tabs'[u] = tabs[u]
      BY DEF JInv, TabsGood
<1>2. Sending' = IF sent THEN Sending \cup {t} ELSE Sending \ {t}
      BY <1>1 DEF Sending
<1>3. Pending' = IF waits THEN Pending \cup {t} ELSE Pending \ {t}
      BY <1>1 DEF Pending
<1>4. /\ IsFiniteSet(Sending) /\ IsFiniteSet(Pending) /\ Len(accepted) \in Nat /\ edits \in Nat
      /\ Len(accepted) + Cardinality(Sending) + Cardinality(Pending) <= edits
      BY DEF JInv, Counted, Typed
<1>5. /\ One(sent) = Sends(q) /\ One(waits) = Waits(q)
      /\ One(t \in Sending) = Sends(tabs[t]) /\ One(t \in Pending) = Waits(tabs[t])
      BY DEF One, Sends, Waits, Sending, Pending
<1>6. /\ Sends(q) \in Nat /\ Waits(q) \in Nat /\ Sends(tabs[t]) \in Nat /\ Waits(tabs[t]) \in Nat
      BY DEF Sends, Waits
<1>7. /\ IsFiniteSet(Sending') /\ Cardinality(Sending) \in Nat /\ Cardinality(Sending') \in Nat
      /\ Cardinality(Sending') + One(t \in Sending) = Cardinality(Sending) + One(sent)
  <2>1. sent \in BOOLEAN
        OBVIOUS
  <2> HIDE DEF sent
  <2> QED BY <1>2, <1>4, <2>1, Counting
<1>8. /\ IsFiniteSet(Pending') /\ Cardinality(Pending) \in Nat /\ Cardinality(Pending') \in Nat
      /\ Cardinality(Pending') + One(t \in Pending) = Cardinality(Pending) + One(waits)
  <2>1. waits \in BOOLEAN
        OBVIOUS
  <2> HIDE DEF waits
  <2> QED BY <1>3, <1>4, <2>1, Counting
<1>9. /\ Cardinality(Sending') + Sends(tabs[t]) = Cardinality(Sending) + Sends(q)
      /\ Cardinality(Pending') + Waits(tabs[t]) = Cardinality(Pending) + Waits(q)
      BY <1>5, <1>7, <1>8
<1> DEFINE c == Cardinality(Sending)
           cc == Cardinality(Sending')
           d == Cardinality(Pending)
           dd == Cardinality(Pending')
           n == Len(accepted)
           nn == Len(accepted')
           e == edits
           ee == edits'
           s == Sends(tabs[t])
           ss == Sends(q)
           w == Waits(tabs[t])
           ww == Waits(q)
<1>10. /\ c \in Nat /\ cc \in Nat /\ d \in Nat /\ dd \in Nat /\ n \in Nat /\ nn \in Nat
       /\ e \in Nat /\ ee \in Nat /\ s \in Nat /\ ss \in Nat /\ w \in Nat /\ ww \in Nat
       /\ cc + s = c + ss /\ dd + w = d + ww /\ n + c + d <= e
       /\ nn + ss + ww + e <= n + s + w + ee
      BY <1>4, <1>6, <1>7, <1>8, <1>9
<1> HIDE DEF c, cc, d, dd, n, nn, e, ee, s, ss, w, ww
<1>11. nn + cc + dd <= ee
      BY <1>10
<1> QED BY <1>7, <1>8, <1>11 DEF Counted, cc, dd, nn, ee

LEMMA CountedSame ==
    ASSUME JInv, UNCHANGED <<edits, accepted>>,
           \A t \in Tabs : tabs'[t].put.pc = tabs[t].put.pc /\ tabs'[t].pending = tabs[t].pending
    PROVE  Counted'
<1>1. Sending' = Sending /\ Pending' = Pending
      BY DEF Sending, Pending
<1> QED BY <1>1 DEF JInv, Counted

LEMMA CountedNext ==
    ASSUME JInv, NEW t \in Tabs, TabNext(t)
    PROVE  Counted'
<1> DEFINE tab == tabs[t]
<1>0. /\ Len(accepted) \in Nat /\ edits \in Nat
      /\ \A x : Sends(x) \in {0, 1} /\ Waits(x) \in {0, 1}
      BY TabFacts DEF JInv, Typed, Sends, Waits
<1>1. ASSUME NEW h \in Dragged, Drag(t, h) PROVE Counted'
  <2> DEFINE shown == [tab.shown EXCEPT ![h] = edits + 1]
             busy == [tab EXCEPT !.shown = shown, !.pending = <<shown>>]
             idle == [tab EXCEPT !.shown = shown, !.put = Sent(shown, tab.rev)]
  <2>1. /\ UNCHANGED accepted /\ edits' = edits + 1
        /\ tabs' = [tabs EXCEPT ![t] = IF Busy(t) THEN busy ELSE idle]
        BY <1>1 DEF Drag
  <2>2. PICK q : /\ tabs' = [tabs EXCEPT ![t] = q]
                 /\ Sends(q) = Sends(tab) \/ Waits(q) = Waits(tab)
                 /\ Sends(q) + Waits(q) <= Sends(tab) + Waits(tab) + 1
    <3>1. busy.put = tab.put /\ idle.pending = tab.pending
          BY TabFacts DEF TabsAt
    <3>2. \/ tabs' = [tabs EXCEPT ![t] = busy]
          \/ tabs' = [tabs EXCEPT ![t] = idle]
          BY <2>1
    <3>3. Sends(busy) = Sends(tab) /\ Waits(idle) = Waits(tab)
          BY <3>1 DEF Sends, Waits
    <3> HIDE DEF busy, idle
    <3>4. /\ Sends(busy) + Waits(busy) <= Sends(tab) + Waits(tab) + 1
          /\ Sends(idle) + Waits(idle) <= Sends(tab) + Waits(tab) + 1
          BY <1>0, <3>3
    <3> QED BY <3>2, <3>3, <3>4
  <2>3. /\ Len(accepted') = Len(accepted) /\ edits' \in Nat
        /\ Len(accepted') + Sends(q) + Waits(q) + edits
             <= Len(accepted) + Sends(tab) + Waits(tab) + edits'
        BY <1>0, <2>1, <2>2
  <2> QED BY <1>0, <2>2, <2>3, CountedStep
<1>2. ASSUME UNCHANGED <<accepted, edits>>, NEW q, tabs' = [tabs EXCEPT ![t] = q],
             Sends(q) + Waits(q) <= Sends(tab) + Waits(tab)
      PROVE  Counted'
  <2>1. /\ Len(accepted') = Len(accepted) /\ edits' = edits
        /\ Len(accepted') + Sends(q) + Waits(q) + edits
             <= Len(accepted) + Sends(tab) + Waits(tab) + edits'
        BY <1>0, <1>2
  <2> QED BY <1>0, <1>2, <2>1, CountedStep
<1>3. CASE PutSaved(t)
  <2> DEFINE q == Drained(tab)
  <2>1. UNCHANGED <<accepted, edits>> /\ tabs' = [tabs EXCEPT ![t] = q] /\ tab.put.pc = "saved"
        BY <1>3 DEF PutSaved
  <2>2. q.pending = <<>> /\ (tab.pending = <<>> => q.put.pc # "sent")
        BY TabFacts DEF Drained, TabsAt, NoPut
  <2> HIDE DEF q
  <2>3. Sends(q) + Waits(q) <= Sends(tab) + Waits(tab)
        BY <2>1, <2>2 DEF Sends, Waits
  <2> QED BY <1>2, <2>1, <2>3
<1>4. CASE PutRefused(t)
  <2> DEFINE q == [tab EXCEPT !.put = NoPut, !.pending = <<>>]
  <2>1. UNCHANGED <<accepted, edits>> /\ tabs' = [tabs EXCEPT ![t] = q]
        BY <1>4, TabFacts DEF PutRefused
  <2>2. q.pending = <<>> /\ q.put.pc # "sent"
        BY TabFacts DEF TabsAt, NoPut
  <2> HIDE DEF q
  <2>3. Sends(q) + Waits(q) <= Sends(tab) + Waits(tab)
        BY <1>0, <2>2 DEF Sends, Waits
  <2> QED BY <1>2, <2>1, <2>3
<1>5. ASSUME NEW p, p.pc # "sent"
      PROVE  LET q == [tab EXCEPT !.put = p] IN Sends(q) = 0 /\ Waits(q) = Waits(tab)
  <2> DEFINE q == [tab EXCEPT !.put = p]
  <2>1. q.pending = tab.pending /\ q.put.pc # "sent"
        BY <1>5, TabFacts DEF TabsAt
  <2> HIDE DEF q
  <2>2. Sends(q) = 0 /\ Waits(q) = Waits(tab)
        BY <2>1 DEF Sends, Waits
  <2> QED BY <2>2 DEF q
<1>6. CASE /\ tabs' = [tabs EXCEPT ![t].put = Answer("refused", 0)]
           /\ UNCHANGED <<accepted, edits>>
  <2> DEFINE q == [tab EXCEPT !.put = Answer("refused", 0)]
  <2>1. Sends(q) = 0 /\ Waits(q) = Waits(tab)
        BY <1>5 DEF Answer
  <2>2. tabs' = [tabs EXCEPT ![t] = q]
        BY <1>6
  <2> HIDE DEF q
  <2>3. Sends(q) + Waits(q) <= Sends(tab) + Waits(tab)
        BY <1>0, <2>1
  <2> QED BY <1>2, <1>6, <2>2, <2>3
<1>7. CASE LosePut(t)
      BY <1>6, <1>7 DEF LosePut
<1>8. CASE ServePut(t)
  <2>1. UNCHANGED edits /\ Sends(tab) = 1
        BY <1>8 DEF ServePut, Sends
  <2>2. CASE /\ accepted' = Append(accepted, tab.put.layout)
             /\ tabs' = [tabs EXCEPT ![t].put = Answer("saved", NextRevision(doc.rev))]
    <3> DEFINE q == [tab EXCEPT !.put = Answer("saved", NextRevision(doc.rev))]
    <3>1. Sends(q) = 0 /\ Waits(q) = Waits(tab)
          BY <1>5 DEF Answer
    <3>2. tabs' = [tabs EXCEPT ![t] = q]
          BY <2>2
    <3>3. Len(accepted') = Len(accepted) + 1
          BY <2>2 DEF JInv, Typed
    <3> HIDE DEF q
    <3>4. /\ Len(accepted') \in Nat /\ edits' \in Nat
          /\ Len(accepted') + Sends(q) + Waits(q) + edits
               <= Len(accepted) + Sends(tab) + Waits(tab) + edits'
          BY <1>0, <2>1, <3>1, <3>3
    <3> QED BY <3>2, <3>4, CountedStep
  <2> QED BY <1>6, <1>8, <2>1, <2>2 DEF ServePut
<1>9. ASSUME NEW v, UNCHANGED <<accepted, edits>>,
             \/ tabs' = [tabs EXCEPT ![t] = [@ EXCEPT !.due = v]]
             \/ tabs' = [tabs EXCEPT ![t] = [@ EXCEPT !.error = v]]
             \/ \E d : tabs' = [tabs EXCEPT ![t] = Loaded(@, d)]
      PROVE  Counted'
  <2>1. /\ DOMAIN tabs = Tabs /\ tab \in TabsAt(Allowed, edits)
        /\ \A u \in Tabs : u # t => tabs'[u] = tabs[u]
        BY <1>9, TabFacts DEF JInv, TabsGood
  <2>2. tabs'[t].put = tab.put /\ tabs'[t].pending = tab.pending
    <3>1. CASE tabs' = [tabs EXCEPT ![t] = [@ EXCEPT !.due = v]]
          BY <2>1, <3>1 DEF TabsAt
    <3>2. CASE tabs' = [tabs EXCEPT ![t] = [@ EXCEPT !.error = v]]
          BY <2>1, <3>2 DEF TabsAt
    <3>3. ASSUME NEW d, tabs' = [tabs EXCEPT ![t] = Loaded(@, d)]
          PROVE  tabs'[t].put = tab.put /\ tabs'[t].pending = tab.pending
      <4>1. tabs'[t] = Loaded(tab, d)
            BY <2>1, <3>3
      <4> QED BY <2>1, <4>1 DEF TabsAt, Loaded
    <3> QED BY <1>9, <3>1, <3>2, <3>3
  <2> QED BY <1>9, <2>1, <2>2, CountedSame
<1>10. CASE Refresh(t)
      BY <1>9, <1>10 DEF Refresh
<1>11. ASSUME NEW s \in Slots, ServeGet(t, s) \/ Repair(t, s) PROVE Counted'
      BY <1>11, CountedSame DEF ServeGet, Repair
<1>12. ASSUME NEW s \in Slots, GetAnswered(t, s) \/ GetFailed(t, s) PROVE Counted'
      BY <1>9, <1>12 DEF GetAnswered, GetFailed
<1> QED BY <1>1, <1>3, <1>4, <1>7, <1>8, <1>10, <1>11, <1>12 DEF TabNext

-----------------------------------------------------------------------------
(* The stronger invariant holds.                                            *)
LEMMA TypedNext ==
    ASSUME JInv, [Next]_vars
    PROVE  Typed'
<1>0. /\ edits \in 0 .. MaxEdits /\ lab \in BOOLEAN /\ MaxEdits \in Nat
      /\ accepted \in Seq(Placed(Allowed, edits))
      BY BoundsAssumption DEF JInv, Typed
<1>1. CASE UNCHANGED <<accepted, edits, lab>>
      BY <1>0, <1>1 DEF Typed, Allowed
<1>2. CASE LabAppears
  <2>1. lab' = TRUE /\ UNCHANGED <<accepted, edits>> /\ Allowed \subseteq Allowed'
        BY <1>2 DEF LabAppears, Allowed
  <2>2. Placed(Allowed, edits) \subseteq Placed(Allowed', edits)
        BY <1>0, <2>1, PlacedMore
  <2>3. accepted \in Seq(Placed(Allowed', edits))
        BY <1>0, <2>2
  <2> QED BY <1>0, <2>1, <2>3 DEF Typed
<1>3. ASSUME NEW t \in Tabs, NEW h \in Dragged, Drag(t, h) PROVE Typed'
  <2>1. /\ UNCHANGED <<lab, accepted>> /\ Allowed' = Allowed
        /\ edits' = edits + 1 /\ edits < MaxEdits
        BY <1>3 DEF Drag, Allowed
  <2>2. Placed(Allowed, edits) \subseteq Placed(Allowed', edits')
        BY <1>0, <2>1, PlacedMore
  <2>3. accepted' \in Seq(Placed(Allowed', edits'))
        BY <1>0, <2>1, <2>2
  <2>4. edits' \in 0 .. MaxEdits
        BY <1>0, <2>1
  <2> QED BY <1>0, <2>1, <2>3, <2>4 DEF Typed
<1>4. ASSUME NEW t \in Tabs, ServePut(t) PROVE Typed'
  <2>1. /\ UNCHANGED <<lab, edits>> /\ Allowed' = Allowed
        /\ accepted' = accepted \/ accepted' = Append(accepted, tabs[t].put.layout)
        BY <1>4 DEF ServePut, Allowed
  <2>2. tabs[t].put.layout \in Placed(Allowed, edits)
        BY TabFacts
  <2>3. accepted' \in Seq(Placed(Allowed', edits'))
        BY <1>0, <2>1, <2>2
  <2> QED BY <1>0, <2>1, <2>3 DEF Typed
<1> QED
  <2>1. \/ UNCHANGED <<accepted, edits, lab>> \/ LabAppears
        \/ \E t \in Tabs : ServePut(t) \/ \E h \in Dragged : Drag(t, h)
        BY ZenonT(60) DEF Next, vars, TabNext, ReadCheck, BackfillKeys, AnnounceCheck, Overlay, CancelTurn,
               ListExtensions, ReadScaffold, Write, PutSaved, PutRefused, LosePut, Refresh,
               ServeGet, Repair, GetAnswered, GetFailed
  <2> QED BY <1>1, <1>2, <1>3, <1>4, <2>1

LEMMA InitJInv == Init => JInv
<1> SUFFICES ASSUME Init PROVE JInv
    OBVIOUS
<1>1. accepted = <<>> /\ Len(accepted) = 0 /\ edits = 0 /\ lab \in BOOLEAN /\ MaxEdits \in Nat
      BY BoundsAssumption DEF Init
<1>2. doc = Row(SeedTopology, NoLayout, 0) /\ SeedTopology \subseteq Allowed
      BY DEF Init, SeedTopology, Allowed
<1>3. Typed
      BY <1>1 DEF Typed
<1>4. Good(doc, accepted, Allowed, edits) /\ Good(NoDoc, accepted, Allowed, edits)
      BY <1>2, NoDocGood DEF NoDoc
<1>5. DocsGood
  <2>1. \A w \in Writers : writers[w].pc = "idle" /\ writers[w].doc = NoDoc
        BY DEF Init, Writers, Waiting, Held
  <2>2. \A t \in Tabs, s \in Slots : gets[t][s].pc = "idle" /\ gets[t][s].doc = NoDoc
        BY DEF Init, NoGet, Get
  <2>3. "turn" \in Writers
        BY DEF Writers
  <2> QED BY <1>4, <2>1, <2>2, <2>3 DEF DocsGood, WriterPcs, GetPcs
<1>6. TabsGood
  <2> DEFINE tab == [shown |-> Nodes(doc), rev |-> 0, put |-> NoPut, pending |-> <<>>,
                     error |-> FALSE, stale |-> FALSE, due |-> FALSE]
  <2>1. tabs = [t \in Tabs |-> tab]
        BY DEF Init
  <2>2. Nodes(doc) \in Placed(Allowed, edits)
        BY <1>1, <1>4, NodesPlaced DEF Good
  <2>3. NoPut \in PutsAt(Allowed, edits) /\ NoPut.pc = "none" /\ NoPut.rev = 0
        BY NoLayoutPlaced DEF NoPut, PutsAt, PutPcs
  <2>4. tab \in TabsAt(Allowed, edits)
        BY <2>2, <2>3 DEF TabsAt, QueueAt
  <2>5. \A h \in DOMAIN Nodes(doc) : Nodes(doc)[h] = 0
        BY <1>2 DEF Nodes, Row, NoLayout
  <2>6. /\ tab.shown = Nodes(doc) /\ tab.rev = 0 /\ tab.put = NoPut /\ tab.pending = <<>>
        OBVIOUS
  <2> HIDE DEF tab
  <2>7. \A loading : \A h \in DOMAIN tab.shown : Carried(tab, h, loading, accepted)
        BY <2>5, <2>6 DEF Carried, Saved
  <2>8. Follows(tab, accepted)
        BY <2>3, <2>6 DEF Follows, NotBehind
  <2>9. \A t \in Tabs : TabSane(tab, Loading(t), accepted)
        BY <1>1, <2>3, <2>6, <2>7, <2>8 DEF TabSane
  <2> QED BY <2>1, <2>4, <2>9 DEF TabsGood
<1>7. Counted
  <2>1. \A t \in Tabs : tabs[t].put.pc = "none" /\ tabs[t].pending = <<>>
        BY DEF Init, NoPut
  <2>2. Sending = {} /\ Pending = {}
        BY <2>1 DEF Sending, Pending
  <2> QED BY <1>1, <2>2, FS_EmptySet DEF Counted
<1> QED BY <1>3, <1>5, <1>6, <1>7, InitIInv DEF JInv

LEMMA NextJInv == JInv /\ [Next]_vars => JInv'
<1> SUFFICES ASSUME JInv, [Next]_vars PROVE JInv'
    OBVIOUS
<1>1. IInv'
      BY NextIInv DEF JInv
<1>2. Typed'
      BY TypedNext
<1>3. DocsGood' /\ TabsGood' /\ Counted'
  <2>1. ASSUME NEW t \in Tabs, TabNext(t) PROVE DocsGood' /\ TabsGood' /\ Counted'
    <3>1. DocsGood' /\ Counted'
          BY <2>1, RouteGood, CountedNext
    <3>2. TabsGood'
          BY <2>1, DragGood, SavedGood, RefusedGood, LoseGood, ServeGood, RefreshGood,
             ReadsGood, AnsweredGood, FailedGood DEF TabNext
    <3> QED BY <3>1, <3>2
  <2>2. CASE AnnounceCheck
    <3>1. DocsGood' /\ TabsGood'
          BY <2>2, TurnGood, AnnouncedGood
    <3>2. /\ UNCHANGED <<edits, accepted>>
          /\ \A t \in Tabs : tabs'[t].put = tabs[t].put /\ tabs'[t].pending = tabs[t].pending
          BY <2>2, TabFacts DEF AnnounceCheck, TabsAt
    <3> QED BY <3>1, <3>2, CountedSame
  <2>3. CASE \/ ReadCheck \/ BackfillKeys \/ Overlay \/ CancelTurn \/ ListExtensions
             \/ ReadScaffold \/ \E w \in Writers : Write(w)
    <3>1. UNCHANGED <<gets, tabs, edits, accepted, lab>>
          BY <2>3 DEF ReadCheck, BackfillKeys, Overlay, CancelTurn, ListExtensions, ReadScaffold, Write
    <3> QED BY <2>3, <3>1, TurnGood, OthersGood, CountedSame
  <2>4. CASE LabAppears \/ UNCHANGED vars
    <3>1. /\ UNCHANGED <<doc, writers, gets, tabs, edits, accepted>>
          /\ lab' = TRUE \/ UNCHANGED lab
          BY <2>4 DEF LabAppears, vars
    <3>2. Allowed \subseteq Allowed' /\ edits \in Nat /\ edits <= edits
          BY <3>1 DEF Allowed, JInv, Typed
    <3>3. edits' \in Nat /\ edits <= edits'
          BY <3>1, <3>2
    <3>4. DocsGood'
          BY <3>1, <3>2, <3>3, MoreGood
    <3> QED BY <3>1, <3>4, OthersGood, CountedSame
  <2> QED BY <2>1, <2>2, <2>3, <2>4 DEF Next, Writers
<1> QED BY <1>1, <1>2, <1>3 DEF JInv

LEMMA JInvHolds == Spec => []JInv
BY InitJInv, NextJInv, PTL DEF Spec

-----------------------------------------------------------------------------
(* The bounds of the model on layouts and revisions follow: an accepted     *)
(* layout has a drag of its own.                                            *)
LEMMA TypesHold == JInv => TypeOK
<1> SUFFICES ASSUME JInv PROVE TypeOK
    OBVIOUS
<1>1. /\ Len(accepted) \in Nat /\ edits \in Nat /\ edits <= MaxEdits /\ MaxEdits \in Nat
      /\ lab \in BOOLEAN /\ edits \in 0 .. MaxEdits
      BY BoundsAssumption DEF JInv, Typed
<1>2. Len(accepted) <= MaxEdits
  <2> DEFINE c == Cardinality(Sending)
             d == Cardinality(Pending)
  <2>1. c \in Nat /\ d \in Nat /\ Len(accepted) + c + d <= edits
        BY FS_CardinalityType DEF JInv, Counted
  <2> HIDE DEF c, d
  <2> QED BY <1>1, <2>1
<1>3. Allowed \subseteq Hosts
      BY DEF Allowed, Hosts
<1>4. Placed(Allowed, edits) \subseteq Layouts
  <2>1. Placed(Hosts, MaxEdits) = Layouts
        BY DEF Placed, Layouts
  <2> QED BY <1>1, <1>3, <2>1, PlacedMore
<1>5. \A r \in Nat : r <= Len(accepted) => r \in 0 .. MaxEdits
      BY <1>1, <1>2
<1>6. ASSUME NEW d, Good(d, accepted, Allowed, edits), Agrees(d, accepted) PROVE d \in Docs
  <2>1. d \in DocsAt(Allowed, edits) /\ d.rev \in 0 .. MaxEdits
        BY <1>5, <1>6 DEF Good, Agrees
  <2> QED BY <1>3, <1>4, <2>1 DEF DocsAt, Docs
<1>7. doc \in Docs
      BY <1>6 DEF JInv, IInv, Snapshots, DocsGood
<1>8. \A w \in DOMAIN writers : writers[w].pc \in WriterPcs /\ writers[w].doc \in Docs
      BY <1>6 DEF JInv, IInv, Shapes, Snapshots, DocsGood
<1>9. \A t \in Tabs, s \in Slots : gets[t][s].pc \in GetPcs /\ gets[t][s].doc \in Docs
      BY <1>6 DEF JInv, IInv, Snapshots, DocsGood
<1>10. ASSUME NEW t \in Tabs
       PROVE  /\ tabs[t].shown \in Layouts /\ tabs[t].rev \in 0 .. MaxEdits
              /\ tabs[t].put.layout \in Layouts /\ tabs[t].put.rev \in 0 .. MaxEdits
      BY <1>4, <1>5, TabFacts DEF TabSane
<1> QED BY <1>1, <1>7, <1>8, <1>9, <1>10 DEF TypeOK, WriterPcs, GetPcs

(* A tab at rest, with nothing unanswered after a failed save and no error  *)
(* on the screen, shows no position that was never saved, in whatever order *)
(* the answers come in; and the types.                                      *)
THEOREM DragsAreKept == Spec => []ShownIsSaved
<1>1. JInv => ShownIsSaved
  <2> SUFFICES ASSUME JInv, NEW t \in Tabs, ~Busy(t), ~tabs[t].error,
                      \A s \in Reloads : gets[t][s].pc = "idle",
                      NEW h \in DOMAIN tabs[t].shown
               PROVE  Saved(tabs[t].shown[h], h, accepted)
      BY TypesHold DEF ShownIsSaved, Saved, Holds
  <2>1. Carried(tabs[t], h, Loading(t), accepted)
        BY TabFacts DEF TabSane
  <2>2. ~Loading(t) /\ tabs[t].put.pc = "none"
        BY DEF Loading, Busy
  <2> QED BY <2>1, <2>2 DEF Carried
<1> QED BY <1>1, JInvHolds, PTL

(* Only the server's acceptance turns a save that is sent into a saved one. *)
LEMMA OnlyServed ==
    ASSUME JInv, [Next]_vars, NEW t \in Tabs,
           tabs[t].put.pc = "sent", tabs'[t].put.pc = "saved"
    PROVE  /\ doc.rev = tabs[t].put.rev
           /\ doc'.layout = tabs[t].put.layout
<1>0. /\ DOMAIN tabs = Tabs /\ tabs[t] \in TabsAt(Allowed, edits)
      BY TabFacts DEF JInv, TabsGood
<1>1. CASE UNCHANGED tabs
      BY <1>1
<1>2. CASE AnnounceCheck
      BY <1>0, <1>2 DEF AnnounceCheck, TabsAt
<1>3. ASSUME NEW u \in Tabs, u # t, TabNext(u) PROVE FALSE
  <2>1. tabs'[t] = tabs[t]
        BY <1>0, <1>3 DEF TabNext, Drag, PutSaved, PutRefused, LosePut, ServePut, Refresh,
                          ServeGet, Repair, GetAnswered, GetFailed
  <2> QED BY <2>1
<1>4. CASE ServePut(t)
  <2>1. CASE IsCurrent(tabs[t].put.rev) /\ doc' = Row(doc.hosts, tabs[t].put.layout, NextRevision(doc.rev))
        BY <2>1 DEF IsCurrent, Row
  <2>2. CASE tabs' = [tabs EXCEPT ![t].put = Answer("refused", 0)]
    <3>1. tabs'[t].put = Answer("refused", 0)
          BY <1>0, <2>2 DEF TabsAt
    <3> QED BY <3>1 DEF Answer
  <2> QED BY <1>4, <2>1, <2>2 DEF ServePut
<1>5. ASSUME NEW h \in Dragged, Drag(t, h) PROVE FALSE
  <2> DEFINE shown == [tabs[t].shown EXCEPT ![h] = edits + 1]
  <2>1. Busy(t)
        BY DEF Busy
  <2>2. tabs'[t] = [tabs[t] EXCEPT !.shown = shown, !.pending = <<shown>>]
        BY <1>0, <1>5, <2>1 DEF Drag
  <2>3. tabs'[t].put = tabs[t].put
        BY <1>0, <2>2 DEF TabsAt
  <2> QED BY <2>3
<1>6. CASE PutSaved(t) \/ PutRefused(t)
      BY <1>6 DEF PutSaved, PutRefused
<1>7. CASE LosePut(t)
  <2>1. tabs'[t].put = Answer("refused", 0)
        BY <1>0, <1>7 DEF LosePut, TabsAt
  <2> QED BY <2>1 DEF Answer
<1>8. CASE Refresh(t)
      BY <1>0, <1>8 DEF Refresh, TabsAt
<1>9. ASSUME NEW s \in Slots, ServeGet(t, s) \/ Repair(t, s) PROVE FALSE
      BY <1>9 DEF ServeGet, Repair
<1>10. ASSUME NEW s \in Slots, GetAnswered(t, s) PROVE FALSE
  <2>1. tabs'[t] = Loaded(tabs[t], gets[t][s].doc)
        BY <1>0, <1>10 DEF GetAnswered
  <2>2. tabs'[t].put = tabs[t].put
        BY <1>0, <2>1 DEF Loaded, TabsAt
  <2> QED BY <2>2
<1>11. ASSUME NEW s \in Slots, GetFailed(t, s) PROVE FALSE
      BY <1>0, <1>11 DEF GetFailed, TabsAt
<1>12. CASE TabNext(t)
      BY <1>4, <1>5, <1>6, <1>7, <1>8, <1>9, <1>10, <1>11, <1>12 DEF TabNext
<1>13. \/ UNCHANGED tabs \/ AnnounceCheck \/ \E u \in Tabs : TabNext(u)
      BY DEF Next, vars, LabAppears, ReadCheck, BackfillKeys, Overlay, CancelTurn, ListExtensions,
             ReadScaffold, Write
<1> QED BY <1>1, <1>2, <1>3, <1>12, <1>13

(* A save whose tab knows what it replaces moves no host back to where an   *)
(* earlier drag had put it, but for a machine whose extension came back.    *)
THEOREM SavesMoveForward == Spec => NewestWins
<1>1. ASSUME JInv, [Next]_vars, NEW t \in Tabs, ~tabs[t].stale,
             tabs[t].put.pc = "sent", tabs'[t].put.pc = "saved",
             NEW h \in DOMAIN doc.layout \cap DOMAIN doc'.layout
      PROVE  \/ doc'.layout[h] >= doc.layout[h]
             \/ h \in ExtensionHosts /\ doc'.layout[h] = 0
  <2>1. doc.rev = tabs[t].put.rev /\ doc'.layout = tabs[t].put.layout
        BY <1>1, OnlyServed
  <2>2. TabSane(tabs[t], Loading(t), accepted)
        BY <1>1, TabFacts
  <2>3. NotBehind(tabs[t].put.layout, doc.rev, accepted)
        BY <1>1, <2>1, <2>2 DEF TabSane, Follows
  <2>4. doc.rev > 0 /\ h \in DOMAIN accepted[doc.rev] /\ doc.layout[h] = accepted[doc.rev][h]
        BY <1>1 DEF JInv, IInv, Snapshots, Agrees
  <2> QED BY <2>1, <2>3, <2>4 DEF NotBehind
<1>2. JInv /\ [Next]_vars
      => [\A t \in Tabs :
            tabs[t].put.pc = "sent" /\ tabs'[t].put.pc = "saved" /\ ~tabs[t].stale
            => \A h \in DOMAIN doc.layout \cap DOMAIN doc'.layout :
                  \/ doc'.layout[h] >= doc.layout[h]
                  \/ h \in ExtensionHosts /\ doc'.layout[h] = 0]_vars
      BY <1>1
<1> QED BY <1>2, JInvHolds, PTL DEF Spec, NewestWins

=============================================================================
