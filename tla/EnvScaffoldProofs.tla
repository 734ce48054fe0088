------------------------- MODULE EnvScaffoldProofs -------------------------
(***************************************************************************)
(* Proofs about EnvScaffold, for any number of invocations, any requests   *)
(* and any lab.                                                            *)
(*                                                                         *)
(* The invariant is one set of books per invocation.  That a claim is its  *)
(* claimant's own is not inductive: a rollback must not have two claims of *)
(* one path (Distinct), and the variant is claimed only after it was made  *)
(* (Target).  That a failed invocation leaves nothing rests on what one    *)
(* without --force has made being claimed (Accounted), which in turn needs *)
(* the reservations to be complete before anything is written on demand    *)
(* (Held).  A step of one invocation leaves the books of the others in     *)
(* order because it makes only what nobody has and removes only its own    *)
(* (OthersKept).                                                           *)
(*                                                                         *)
(* That what the winner leaves is whole adds what each call finds of the   *)
(* calls before it (Left), where no --force lets one write into another's  *)
(* reservation.  Its inventory is fit because a repair meets the contract  *)
(* that provisioning checks, which is proved first and for every document  *)
(* (RepairMeetsContract).                                                  *)
(***************************************************************************)
EXTENDS EnvScaffold, TLAPS

(* What a repair of an inventory guarantees, for every document and lab.    *)
\* A document: partial functions from hosts, groups and keys.
IsDocument(d) ==
    /\ d = [hosts |-> d.hosts, groups |-> d.groups, vars |-> d.vars]
    /\ d.hosts = [h \in DOMAIN d.hosts |-> d.hosts[h]] /\ DOMAIN d.hosts \subseteq Hosts
    /\ d.groups = [g \in DOMAIN d.groups |-> d.groups[g]]
    /\ \A g \in DOMAIN d.groups : d.groups[g] \subseteq Hosts
    /\ d.vars = [k \in DOMAIN d.vars |-> d.vars[k]]

Repaired(d, canonical, transport) == ensureInventoryTopologyFromSource(d, canonical, transport)

-----------------------------------------------------------------------------
(* The two halves of a repair.                                              *)
LEMMA GroupsRepaired ==
    ASSUME NEW d, NEW sections
    PROVE  /\ DOMAIN addInventoryTopology(d, sections) = DOMAIN d.groups \cup DOMAIN sections
           /\ \A g \in DOMAIN d.groups : d.groups[g] \subseteq addInventoryTopology(d, sections)[g]
           /\ \A g \in DOMAIN sections :
                Lowered(sections[g]) \subseteq Lowered(addInventoryTopology(d, sections)[g])
<1> DEFINE new == addInventoryTopology(d, sections)
<1>1. /\ DOMAIN new = DOMAIN d.groups \cup DOMAIN sections
      /\ \A g \in DOMAIN new : new[g] =
            Members(d, g) \cup IF g \in DOMAIN sections THEN missingMembers(d, sections, g) ELSE {}
      BY DEF addInventoryTopology
<1>2. ASSUME NEW g \in DOMAIN sections, NEW h \in sections[g]
      PROVE  Lower[h] \in Lowered(new[g])
  <2>1. new[g] = Members(d, g) \cup missingMembers(d, sections, g)
        BY <1>1
  <2>2. CASE h \in missingMembers(d, sections, g)
        BY <2>1, <2>2 DEF Lowered
  <2>3. CASE h \notin missingMembers(d, sections, g)
    <3>1. Lower[h] \in Lowered(Members(d, g))
          BY <2>3 DEF missingMembers
    <3> QED BY <3>1, <2>1 DEF Lowered
  <2> QED BY <2>2, <2>3
<1>3. \A g \in DOMAIN sections : Lowered(sections[g]) \subseteq Lowered(new[g])
      BY <1>2 DEF Lowered
<1>4. \A g \in DOMAIN d.groups : d.groups[g] \subseteq new[g]
      BY <1>1 DEF Members
<1> QED BY <1>1, <1>3, <1>4

LEMMA VarsRepaired ==
    ASSUME NEW d, NEW canonical, NEW transport
    PROVE  LET new == addInventoryVariables(d, canonical, transport)
           IN  /\ \A k \in DOMAIN d.vars : k \in DOMAIN new /\ new[k] = d.vars[k]
               /\ \A k \in DOMAIN canonical.vars : k \in transport \/ k \in DOMAIN new
BY DEF addInventoryVariables, missingVars, Over, Only

(* A repair of an Active Directory inventory meets the contract it is       *)
(* checked against: the check that ends it can only fail on a file that     *)
(* something else wrote.  And it loses nothing: no host line, no member of  *)
(* a group and no value of a variable that was there.                       *)
THEOREM RepairMeetsContract ==
    ASSUME NEW d, NEW canonical, NEW transport, IsAD(canonical)
    PROVE  LET new == Repaired(d, canonical, transport)
           IN  /\ Contract(new, filterCanonicalTopology(canonical, d), canonical, transport)
               /\ new.hosts = d.hosts
               /\ \A g \in DOMAIN d.groups : g \in DOMAIN new.groups /\ d.groups[g] \subseteq new.groups[g]
               /\ \A k \in DOMAIN d.vars : k \in DOMAIN new.vars /\ new.vars[k] = d.vars[k]
<1> DEFINE sections == filterCanonicalTopology(canonical, d)
           new == Repaired(d, canonical, transport)
<1>1. /\ new.hosts = d.hosts
      /\ new.groups = addInventoryTopology(d, sections)
      /\ new.vars = addInventoryVariables(d, canonical, transport)
      BY DEF ensureInventoryTopologyFromSource, Repaired
<1> HIDE DEF sections, new
<1>2. /\ DOMAIN addInventoryTopology(d, sections) = DOMAIN d.groups \cup DOMAIN sections
      /\ \A g \in DOMAIN d.groups : d.groups[g] \subseteq addInventoryTopology(d, sections)[g]
      /\ \A g \in DOMAIN sections :
           Lowered(sections[g]) \subseteq Lowered(addInventoryTopology(d, sections)[g])
      BY GroupsRepaired, Zenon
<1>3. \A g \in DOMAIN d.groups : g \in DOMAIN new.groups /\ d.groups[g] \subseteq new.groups[g]
      BY <1>1, <1>2
<1>4. \A g \in DOMAIN sections :
          g \in DOMAIN new.groups /\ Lowered(sections[g]) \subseteq Lowered(new.groups[g])
      BY <1>1, <1>2
<1>5. /\ \A k \in DOMAIN d.vars : k \in DOMAIN new.vars /\ new.vars[k] = d.vars[k]
      /\ \A k \in DOMAIN canonical.vars : k \in transport \/ k \in DOMAIN new.vars
      BY <1>1, VarsRepaired
<1>6. Contract(new, sections, canonical, transport)
      BY <1>4, <1>5 DEF Contract
<1> QED BY <1>1, <1>3, <1>5, <1>6 DEF new, sections

(* Repairing twice is repairing once, so provisioning may run it each time. *)
THEOREM RepairIsIdempotent ==
    ASSUME NEW d, NEW canonical, NEW transport, IsDocument(d)
    PROVE  LET new == Repaired(d, canonical, transport)
           IN  Repaired(new, canonical, transport) = new
<1> DEFINE sections == filterCanonicalTopology(canonical, d)
           new == Repaired(d, canonical, transport)
<1>1. CASE ~IsAD(canonical)
      BY <1>1 DEF Repaired, ensureInventoryTopologyFromSource
<1>2. CASE IsAD(canonical)
  <2>1. new = [hosts |-> d.hosts, groups |-> addInventoryTopology(d, sections),
               vars |-> addInventoryVariables(d, canonical, transport)]
        BY <1>2 DEF ensureInventoryTopologyFromSource, Repaired
  <2>2. filterCanonicalTopology(canonical, new) = sections
        BY <2>1 DEF filterCanonicalTopology, Deployed
  <2>3. addInventoryTopology(new, sections) = new.groups
    <3>1. new.groups = addInventoryTopology(d, sections)
          BY <2>1
    <3> HIDE DEF new, sections
    <3>2. /\ DOMAIN addInventoryTopology(d, sections) = DOMAIN d.groups \cup DOMAIN sections
          /\ \A g \in DOMAIN d.groups : d.groups[g] \subseteq addInventoryTopology(d, sections)[g]
          /\ \A g \in DOMAIN sections :
               Lowered(sections[g]) \subseteq Lowered(addInventoryTopology(d, sections)[g])
          BY GroupsRepaired, Zenon
    <3>3. DOMAIN new.groups = DOMAIN d.groups \cup DOMAIN sections
          BY <3>1, <3>2
    <3>4. ASSUME NEW g \in DOMAIN sections PROVE missingMembers(new, sections, g) = {}
      <4>1. g \in DOMAIN new.groups /\ Lowered(sections[g]) \subseteq Lowered(new.groups[g])
            BY <3>1, <3>2
      <4>2. \A h \in sections[g] : Lower[h] \in Lowered(Members(new, g))
            BY <4>1 DEF Members, Lowered
      <4> QED BY <4>2 DEF missingMembers
    <3>5. addInventoryTopology(new, sections) = [g \in DOMAIN new.groups |-> new.groups[g]]
      <4>1. DOMAIN new.groups \cup DOMAIN sections = DOMAIN new.groups
            BY <3>3
      <4>2. \A g \in DOMAIN new.groups : new.groups[g] =
                Members(new, g) \cup IF g \in DOMAIN sections THEN missingMembers(new, sections, g) ELSE {}
            BY <3>4 DEF Members
      <4> QED BY <4>1, <4>2 DEF addInventoryTopology
    <3>6. new.groups = [g \in DOMAIN new.groups |-> new.groups[g]]
      <4>1. new.groups = [g \in DOMAIN d.groups \cup DOMAIN sections |->
                Members(d, g) \cup IF g \in DOMAIN sections THEN missingMembers(d, sections, g) ELSE {}]
            BY <3>1 DEF addInventoryTopology
      <4> QED BY <4>1
    <3> QED BY <3>5, <3>6
  <2>4. addInventoryVariables(new, canonical, transport) = new.vars
    <3>1. \A k \in DOMAIN canonical.vars : k \in transport \/ k \in DOMAIN new.vars
          BY <2>1, VarsRepaired
    <3>2. missingVars(new, canonical, transport) = {}
          BY <3>1 DEF missingVars
    <3>3. new.vars = [k \in DOMAIN new.vars |-> new.vars[k]]
      <4>1. new.vars = addInventoryVariables(d, canonical, transport)
            BY <2>1
      <4> HIDE DEF new
      <4> QED BY <4>1 DEF addInventoryVariables, Over
    <3> HIDE DEF new
    <3> QED BY <3>2, <3>3 DEF addInventoryVariables, Over, Only
  <2>5. Repaired(new, canonical, transport) =
            [hosts |-> new.hosts, groups |-> addInventoryTopology(new, filterCanonicalTopology(canonical, new)),
             vars |-> addInventoryVariables(new, canonical, transport)]
        BY <1>2 DEF Repaired, ensureInventoryTopologyFromSource
  <2>6. Repaired(new, canonical, transport) = [hosts |-> new.hosts, groups |-> new.groups, vars |-> new.vars]
        BY <2>2, <2>3, <2>4, <2>5
  <2>7. new = [hosts |-> new.hosts, groups |-> new.groups, vars |-> new.vars]
        BY <2>1
  <2> QED BY <2>6, <2>7
<1> QED BY <1>1, <1>2

-----------------------------------------------------------------------------
(* The invariant. *)

Labels == Ended \cup {"available", "reference", "reserve_env", "reserve_overlay",
    "reserve_inventory", "infrastructure", "region", "copy", "repoint_lab", "new_target",
    "transform", "marker", "config", "inventory", "repoint", "filter", "topology", "cleanup"}
Writing == {"infrastructure", "region", "copy", "repoint_lab", "new_target", "transform",
            "marker", "config", "inventory", "repoint", "filter", "topology", "created"}

Shape ==
    /\ request \in [Creators -> Requests]
    /\ pc \in [Creators -> Labels]
    /\ claims \in [Creators -> Seq(Artifacts)]
    /\ owner \in [Artifacts -> Creators \cup {None, "earlier"}]

\* Claims are of one's own paths, and no path is claimed twice.
Distinct(p) ==
    /\ IsInjective(claims[p])
    /\ \A a \in ToSet(claims[p]) : owner[a] = p

\* Nothing is claimed before the first reservation, nor after a rollback.
Unclaimed(p) ==
    pc[p] \in {"available", "reference", "reserve_env", "failed"} => claims[p] = <<>>

\* An invocation without --force writes only where it has reserved.
Held(p) ==
    ~request[p].force =>
        /\ pc[p] \in Writing \cup {"reserve_overlay", "reserve_inventory"}
              => "env" \in ToSet(claims[p])
        /\ pc[p] \in Writing => "inventory" \in ToSet(claims[p])
        /\ WantsOverlay(p) /\ pc[p] \in Writing \cup {"reserve_inventory"}
              => "overlay" \in ToSet(claims[p])

\* The variant being generated is its generator's, and not claimed yet.
Target(p) ==
    pc[p] \in {"transform", "marker"} =>
        owner["variant"] = p /\ "variant" \notin ToSet(claims[p])

\* What an invocation without --force has made is claimed, but for the variant it
\* is still generating; unless it died.
Accounted(p) ==
    ~request[p].force /\ pc[p] # "dead" =>
        \A a \in Artifacts : owner[a] = p =>
            a \in ToSet(claims[p]) \/ (a = "variant" /\ pc[p] \in {"transform", "marker"})

Books(p) == Distinct(p) /\ Unclaimed(p) /\ Held(p) /\ Target(p) /\ Accounted(p)
IInv == Shape /\ \A p \in Creators : Books(p)

-----------------------------------------------------------------------------
(* Sequences of claims.                                                     *)
LEMMA Claimed ==
    ASSUME NEW S, NEW s \in Seq(S), NEW a \in S, a \notin ToSet(s), IsInjective(s)
    PROVE  /\ Append(s, a) \in Seq(S)
           /\ ToSet(Append(s, a)) = ToSet(s) \cup {a}
           /\ IsInjective(Append(s, a))
BY SMTT(60) DEF ToSet, IsInjective

LEMMA Released ==
    ASSUME NEW S, NEW s \in Seq(S), s # <<>>, IsInjective(s)
    PROVE  /\ Last(s) \in S /\ Last(s) \in ToSet(s)
           /\ Front(s) \in Seq(S)
           /\ ToSet(Front(s)) = ToSet(s) \ {Last(s)}
           /\ IsInjective(Front(s))
<1> DEFINE n == Len(s)
<1>1. n \in Nat \ {0} /\ s \in [1 .. n -> S]
      OBVIOUS
<1>2. /\ Front(s) \in Seq(S) /\ Len(Front(s)) = n - 1
      /\ \A i \in 1 .. n - 1 : Front(s)[i] = s[i]
      BY <1>1 DEF Front
<1>3. DOMAIN Front(s) = 1 .. n - 1 /\ DOMAIN s = 1 .. n
      BY <1>1, <1>2
<1>4. Last(s) \in S /\ Last(s) \in ToSet(s)
      BY <1>1 DEF Last, ToSet
<1>5. IsInjective(Front(s))
      BY <1>1, <1>2, <1>3 DEF IsInjective
<1>6. ToSet(Front(s)) = ToSet(s) \ {Last(s)}
  <2>1. ASSUME NEW x \in ToSet(Front(s)) PROVE x \in ToSet(s) /\ x # Last(s)
        BY <2>1, <1>1, <1>2, <1>3 DEF IsInjective, ToSet, Last
  <2>2. ASSUME NEW x \in ToSet(s), x # Last(s) PROVE x \in ToSet(Front(s))
        BY <2>2, <1>1, <1>2, <1>3 DEF ToSet, Last
  <2> QED BY <2>1, <2>2
<1> QED BY <1>2, <1>4, <1>5, <1>6

LEMMA Nobody == None \notin Creators /\ "earlier" \notin Creators
BY CreatorsAssumption DEF CreatorsAssumption

-----------------------------------------------------------------------------
(* What one invocation does leaves the books of the others in order: it     *)
(* makes what nobody has, and removes what is its own.                      *)
LEMMA OthersKept ==
    ASSUME IInv, NEW p \in Creators, Shape', Books(p)', request' = request,
           \A q \in Creators \ {p} : pc'[q] = pc[q] /\ claims'[q] = claims[q],
           \A a \in Artifacts : \/ owner'[a] = owner[a]
                                \/ owner[a] = None /\ owner'[a] = p
                                \/ owner[a] = p /\ owner'[a] \in {None, "earlier"}
    PROVE  IInv'
<1> SUFFICES ASSUME NEW q \in Creators \ {p} PROVE Books(q)'
    BY DEF IInv
<1>1. Books(q) /\ pc'[q] = pc[q] /\ claims'[q] = claims[q] /\ request'[q] = request[q]
      BY DEF IInv
<1>2. q \notin {p, None, "earlier"} /\ "variant" \in Artifacts /\ ToSet(claims[q]) \subseteq Artifacts
  <2>1. claims[q] \in Seq(Artifacts)
        BY DEF IInv, Shape
  <2> QED BY <2>1, Nobody DEF ToSet, Artifacts
<1>3. \A a \in Artifacts : owner[a] = q <=> owner'[a] = q
      BY <1>2
<1>4. Distinct(q)'
      BY <1>1, <1>2, <1>3 DEF Books, Distinct
<1>5. Unclaimed(q)'
      BY <1>1 DEF Books, Unclaimed
<1>6. Held(q)'
      BY <1>1 DEF Books, Held, WantsOverlay
<1>7. Target(q)'
      BY <1>1, <1>2, <1>3 DEF Books, Target
<1>8. Accounted(q)'
      BY <1>1, <1>2, <1>3 DEF Books, Accounted
<1> QED BY <1>4, <1>5, <1>6, <1>7, <1>8 DEF Books

-----------------------------------------------------------------------------
(* A step that claims and releases nothing: it moves on, and may make on    *)
(* demand what it has reserved or what --force lets it make.                *)
Reserving == {"reserve_overlay", "reserve_inventory"}
Generating == {"transform", "marker"}
LEMMA Moved ==
    ASSUME IInv, NEW p \in Creators, NEW label \in Labels \ Reserving,
           pc[p] # "dead", request' = request, claims' = claims, Goto(p, label),
           owner' = owner \/ \E a \in Artifacts \ {"variant"} :
               Made(p, a) /\ pc[p] \in Writing /\ (a = "overlay" => WantsOverlay(p)),
           label \in Writing => pc[p] \in Writing \/ request[p].force,
           label \in Generating => pc[p] \in Generating,
           pc[p] \in Generating => label \in Generating \cup {"dead"},
           label \in {"available", "reference", "reserve_env", "failed"} => claims[p] = <<>>
    PROVE  IInv'
<1> USE DEF Goto
<1>1. Shape /\ Books(p) /\ None \notin Creators /\ claims[p] \in Seq(Artifacts)
      BY Nobody DEF IInv, Shape
<1>2. /\ pc' \in [Creators -> Labels] /\ pc'[p] = label
      /\ \A q \in Creators \ {p} : pc'[q] = pc[q]
      BY <1>1 DEF Shape
<1>3. \A a \in Artifacts : owner'[a] = owner[a] \/ (owner[a] = None /\ owner'[a] = p)
  <2>1. ASSUME NEW b \in Artifacts \ {"variant"}, Made(p, b), NEW a \in Artifacts
        PROVE  owner'[a] = owner[a] \/ (owner[a] = None /\ owner'[a] = p)
        BY <2>1, <1>1 DEF Shape, Made
  <2> QED BY <2>1
<1>4. owner' \in [Artifacts -> Creators \cup {None, "earlier"}] /\ owner'["variant"] = owner["variant"]
  <2>1. CASE owner' = owner
        BY <2>1, <1>1 DEF Shape
  <2>2. ASSUME NEW a \in Artifacts \ {"variant"}, Made(p, a)
        PROVE  /\ owner' \in [Artifacts -> Creators \cup {None, "earlier"}]
               /\ owner'["variant"] = owner["variant"]
        BY <2>2, <1>1 DEF Shape, Made, Artifacts
  <2> QED BY <2>1, <2>2
<1>5. Shape'
      BY <1>1, <1>2, <1>4 DEF Shape
<1>6. Distinct(p)'
  <2>1. ToSet(claims[p]) \subseteq Artifacts
        BY <1>1 DEF ToSet
  <2> QED BY <2>1, <1>1, <1>3 DEF Books, Distinct
<1>7. Unclaimed(p)'
      BY <1>2 DEF Unclaimed
<1>8. Held(p)'
      BY <1>1, <1>2 DEF Books, Held, WantsOverlay, Reserving
<1>9. Target(p)'
      BY <1>1, <1>2, <1>4 DEF Books, Target, Generating
<1>10. Accounted(p)'
  <2> SUFFICES ASSUME ~request[p].force, label # "dead",
                      NEW a \in Artifacts, owner'[a] = p
               PROVE  a \in ToSet(claims[p]) \/ (a = "variant" /\ label \in Generating)
      BY <1>2 DEF Accounted, Generating
  <2>1. CASE owner[a] = p
        BY <2>1, <1>1 DEF Books, Accounted, Generating
  <2>2. CASE owner[a] # p
    <3>1. PICK b \in Artifacts \ {"variant"} :
              Made(p, b) /\ pc[p] \in Writing /\ (b = "overlay" => WantsOverlay(p))
          BY <2>2
    <3>2. a = b
          BY <2>2, <3>1, <1>1 DEF Shape, Made
    <3> QED BY <3>1, <3>2, <1>1 DEF Books, Held, Artifacts
  <2> QED BY <2>1, <2>2
<1>11. Books(p)'
      BY <1>6, <1>7, <1>8, <1>9, <1>10 DEF Books
<1> QED BY <1>2, <1>3, <1>5, <1>11, OthersKept

(* A reservation: only of a path that is free, recorded with the making.    *)
LEMMA Reserved ==
    ASSUME IInv, NEW p \in Creators, NEW a \in Artifacts \ {"variant"}, NEW label \in Labels,
           label \notin Generating, label \notin {"available", "reference", "reserve_env", "failed"},
           pc[p] \notin Generating \cup {"dead"}, Free(a), Goto(p, label), Claim(p, a),
           Held(p)'
    PROVE  IInv'
<1> USE DEF Goto, Claim, Free, Exists
<1>1. Shape /\ Books(p) /\ None \notin Creators /\ claims[p] \in Seq(Artifacts)
      BY Nobody DEF IInv, Shape
<1>2. /\ pc' \in [Creators -> Labels] /\ pc'[p] = label
      /\ \A q \in Creators \ {p} : pc'[q] = pc[q] /\ claims'[q] = claims[q]
      BY <1>1 DEF Shape
<1>3. a \notin ToSet(claims[p])
      BY <1>1 DEF Books, Distinct
<1>4. /\ claims'[p] \in Seq(Artifacts) /\ IsInjective(claims'[p])
      /\ ToSet(claims'[p]) = ToSet(claims[p]) \cup {a}
  <2>1. claims'[p] = Append(claims[p], a)
        BY <1>1 DEF Shape
  <2>2. /\ Append(claims[p], a) \in Seq(Artifacts)
        /\ ToSet(Append(claims[p], a)) = ToSet(claims[p]) \cup {a}
        /\ IsInjective(Append(claims[p], a))
        BY <1>1, <1>3, Claimed, Zenon DEF Books, Distinct
  <2> QED BY <2>1, <2>2
<1>5. owner' = [owner EXCEPT ![a] = p] /\ owner[a] = None /\ owner'[a] = p
      BY <1>1 DEF Shape
<1>6. Shape'
  <2>1. claims' \in [Creators -> Seq(Artifacts)]
        BY <1>1, <1>4 DEF Shape
  <2> QED BY <2>1, <1>1, <1>2, <1>5 DEF Shape
<1>7. Distinct(p)'
  <2>1. ToSet(claims[p]) \subseteq Artifacts
        BY <1>1 DEF ToSet
  <2> QED BY <2>1, <1>1, <1>4, <1>5 DEF Books, Distinct, Shape
<1>8. Unclaimed(p)' /\ Target(p)'
      BY <1>2 DEF Unclaimed, Target, Generating
<1>9. Accounted(p)'
      BY <1>1, <1>2, <1>4, <1>5 DEF Books, Accounted, Generating, Shape
<1>10. Books(p)'
      BY <1>7, <1>8, <1>9 DEF Books
<1> QED BY <1>2, <1>5, <1>6, <1>10, <1>1, OthersKept DEF Shape

(* The generator has returned: its target is claimed, unless with --force.  *)
LEMMA Tracked ==
    ASSUME IInv, NEW p \in Creators, NEW label \in {"cleanup", "inventory"},
           pc[p] \in Generating, Goto(p, label),
           claims' = Track(p), UNCHANGED <<request, owner>>
    PROVE  IInv'
<1> USE DEF Goto, Track
<1>1. Shape /\ Books(p) /\ None \notin Creators /\ claims[p] \in Seq(Artifacts)
      BY Nobody DEF IInv, Shape
<1>2. /\ pc' \in [Creators -> Labels] /\ pc'[p] = label
      /\ \A q \in Creators \ {p} : pc'[q] = pc[q] /\ claims'[q] = claims[q]
      BY <1>1 DEF Shape, Labels
<1>3. owner["variant"] = p /\ "variant" \notin ToSet(claims[p]) /\ "variant" \in Artifacts
      BY <1>1 DEF Books, Target, Generating, Artifacts
<1>4. /\ claims'[p] \in Seq(Artifacts) /\ IsInjective(claims'[p])
      /\ ToSet(claims'[p]) = ToSet(claims[p]) \cup (IF request[p].force THEN {} ELSE {"variant"})
  <2>1. CASE request[p].force
        BY <2>1, <1>1 DEF Books, Distinct
  <2>2. CASE ~request[p].force
    <3>1. claims'[p] = Append(claims[p], "variant")
          BY <2>2, <1>1 DEF Shape
    <3>2. /\ Append(claims[p], "variant") \in Seq(Artifacts)
          /\ ToSet(Append(claims[p], "variant")) = ToSet(claims[p]) \cup {"variant"}
          /\ IsInjective(Append(claims[p], "variant"))
          BY <1>1, <1>3, Claimed, Zenon DEF Books, Distinct
    <3> QED BY <2>2, <3>1, <3>2
  <2> QED BY <2>1, <2>2
<1>5. Shape'
  <2>1. claims' \in [Creators -> Seq(Artifacts)]
        BY <1>1, <1>4 DEF Shape
  <2> QED BY <2>1, <1>1, <1>2 DEF Shape
<1>6. Distinct(p)'
      BY <1>1, <1>3, <1>4 DEF Books, Distinct
<1>7. Unclaimed(p)' /\ Target(p)'
      BY <1>2 DEF Unclaimed, Target
<1>8. Held(p)'
  <2>1. pc[p] \in Writing
        BY DEF Generating, Writing
  <2> QED BY <2>1, <1>1, <1>2, <1>4 DEF Books, Held, WantsOverlay
<1>9. Accounted(p)'
      BY <1>1, <1>2, <1>3, <1>4 DEF Books, Accounted, Generating
<1>10. Books(p)'
      BY <1>6, <1>7, <1>8, <1>9 DEF Books
<1> QED BY <1>2, <1>5, <1>10, OthersKept

(* The generator makes its target, where there is none.                     *)
LEMMA TargetMade ==
    ASSUME IInv, NEW p \in Creators, pc[p] = "new_target", Free("variant"),
           Goto(p, "transform"), owner' = [owner EXCEPT !["variant"] = p],
           UNCHANGED <<request, claims>>
    PROVE  IInv'
<1> USE DEF Goto, Free, Exists
<1>1. Shape /\ Books(p) /\ None \notin Creators /\ claims[p] \in Seq(Artifacts)
      BY Nobody DEF IInv, Shape
<1>2. /\ pc' \in [Creators -> Labels] /\ pc'[p] = "transform"
      /\ \A q \in Creators \ {p} : pc'[q] = pc[q] /\ claims'[q] = claims[q]
      BY <1>1 DEF Shape, Labels
<1>3. /\ owner["variant"] = None /\ owner'["variant"] = p /\ "variant" \in Artifacts
      /\ \A a \in Artifacts \ {"variant"} : owner'[a] = owner[a]
      BY <1>1 DEF Shape, Artifacts
<1>4. Shape'
      BY <1>1, <1>2, <1>3 DEF Shape
<1>5. "variant" \notin ToSet(claims[p]) /\ ToSet(claims[p]) \subseteq Artifacts
      BY <1>1, <1>3 DEF Books, Distinct, ToSet
<1>6. Distinct(p)'
      BY <1>1, <1>3, <1>5 DEF Books, Distinct
<1>7. Unclaimed(p)' /\ Target(p)'
      BY <1>2, <1>3, <1>5 DEF Unclaimed, Target
<1>8. Held(p)'
      BY <1>1, <1>2 DEF Books, Held, WantsOverlay, Writing
<1>9. Accounted(p)'
      BY <1>1, <1>2, <1>3 DEF Books, Accounted
<1>10. Books(p)'
      BY <1>6, <1>7, <1>8, <1>9 DEF Books
<1> QED BY <1>2, <1>3, <1>4, <1>10, OthersKept

(* A rollback gives up the last path claimed, removed or not, and forgets it. *)
LEMMA RolledBack ==
    ASSUME IInv, NEW p \in Creators, pc[p] = "cleanup", claims[p] # <<>>, NEW left \in {None, "earlier"},
           owner' = [owner EXCEPT ![Last(claims[p])] = left],
           claims' = [claims EXCEPT ![p] = Front(@)], UNCHANGED <<request, pc>>
    PROVE  IInv'
<1> DEFINE last == Last(claims[p])
<1>1. Shape /\ Books(p) /\ left \notin Creators /\ claims[p] \in Seq(Artifacts)
      BY Nobody DEF IInv, Shape
<1>2. /\ last \in Artifacts /\ last \in ToSet(claims[p]) /\ owner[last] = p
      /\ Front(claims[p]) \in Seq(Artifacts)
      /\ ToSet(Front(claims[p])) = ToSet(claims[p]) \ {last}
      /\ IsInjective(Front(claims[p]))
  <2>1. IsInjective(claims[p])
        BY <1>1 DEF Books, Distinct
  <2>2. /\ last \in Artifacts /\ last \in ToSet(claims[p])
        /\ Front(claims[p]) \in Seq(Artifacts)
        /\ ToSet(Front(claims[p])) = ToSet(claims[p]) \ {last}
        /\ IsInjective(Front(claims[p]))
        BY <1>1, <2>1, Released, Zenon
  <2> QED BY <2>2, <1>1 DEF Books, Distinct
<1> HIDE DEF last
<1>3. /\ owner'[last] = left /\ \A a \in Artifacts \ {last} : owner'[a] = owner[a]
      /\ owner' \in [Artifacts -> Creators \cup {None, "earlier"}]
      BY <1>1, <1>2 DEF Shape, last
<1>4. /\ claims'[p] = Front(claims[p]) /\ claims' \in [Creators -> Seq(Artifacts)]
      /\ \A q \in Creators \ {p} : claims'[q] = claims[q]
      BY <1>1, <1>2 DEF Shape
<1>5. Shape'
      BY <1>1, <1>3, <1>4 DEF Shape
<1>6. Distinct(p)'
  <2>1. ToSet(claims[p]) \subseteq Artifacts
        BY <1>1 DEF ToSet
  <2> QED BY <2>1, <1>1, <1>2, <1>3, <1>4 DEF Books, Distinct
<1>7. Unclaimed(p)' /\ Target(p)' /\ Held(p)'
      BY DEF Unclaimed, Target, Held, Writing
<1>8. Accounted(p)'
  <2> SUFFICES ASSUME ~request[p].force, NEW a \in Artifacts, owner'[a] = p
               PROVE  a \in ToSet(claims'[p])
      BY DEF Accounted
  <2>1. a # last /\ owner[a] = p
        BY <1>1, <1>3
  <2>2. a \in ToSet(claims[p])
        BY <2>1, <1>1 DEF Books, Accounted
  <2> QED BY <2>1, <2>2, <1>2, <1>4
<1>9. Books(p)'
      BY <1>6, <1>7, <1>8 DEF Books
<1>10. \A a \in Artifacts : owner'[a] = owner[a] \/ (owner[a] = p /\ owner'[a] \in {None, "earlier"})
      BY <1>2, <1>3
<1> QED BY <1>4, <1>5, <1>9, <1>10, OthersKept

-----------------------------------------------------------------------------
LEMMA InitIInv == Init => IInv
<1> SUFFICES ASSUME Init PROVE IInv
    OBVIOUS
<1>1. ToSet(<<>>) = {} /\ IsInjective(<<>>)
      BY DEF ToSet, IsInjective
<1>2. Shape
      BY DEF Init, Shape, Labels, Artifacts
<1>3. ASSUME NEW p \in Creators PROVE Books(p)
  <2>1. claims[p] = <<>> /\ pc[p] = "available" /\ \A a \in Artifacts : owner[a] # p
        BY Nobody DEF Init
  <2> QED BY <1>1, <2>1 DEF Books, Distinct, Unclaimed, Held, Target, Accounted, Writing
<1> QED BY <1>2, <1>3 DEF IInv

(* The calls that only move on: a failure, a write where one has reserved.  *)
LEMMA FailIInv ==
    ASSUME IInv, NEW p \in Creators, pc[p] \notin Generating \cup {"dead"}, Fail(p)
    PROVE  IInv'
<1>1. /\ "cleanup" \in Labels \ Reserving /\ "cleanup" \notin Writing \cup Generating
      /\ "cleanup" \notin {"available", "reference", "reserve_env", "failed"}
      BY DEF Labels, Reserving, Writing, Generating
<1> QED BY <1>1, Moved, Zenon DEF Fail

LEMMA WriteIInv ==
    ASSUME IInv, NEW p \in Creators, NEW label, NEW next, NEW parts,
           label \in Writing \ (Generating \cup Ended),
           next \in Writing \ (Generating \cup Ended),
           Write(p, label, next, parts)
    PROVE  IInv'
<1>1. pc[p] = label /\ pc[p] \notin Generating \cup {"dead"} /\ pc[p] \in Writing
      BY DEF Write, At, Ended
<1>2. CASE Fail(p)
      BY <1>1, <1>2, FailIInv
<1>3. CASE Goto(p, next) /\ Made(p, "env") /\ UNCHANGED <<request, claims>>
  <2>1. /\ next \in Labels \ Reserving /\ "env" \in Artifacts \ {"variant"} /\ "env" # "overlay"
        /\ next \notin {"available", "reference", "reserve_env", "failed"} \cup Generating
        BY DEF Labels, Reserving, Writing, Artifacts, Ended
  <2>2. request' = request /\ claims' = claims
        BY <1>3
  <2> QED BY <1>1, <1>3, <2>1, <2>2, Moved, Zenon
<1> QED BY <1>2, <1>3 DEF Write

LEMMA RewriteIInv ==
    ASSUME IInv, NEW p \in Creators, NEW label, NEW next, NEW new,
           label \in Writing \ (Generating \cup Ended),
           next \in Writing \ Generating,
           At(p, label), Fail(p) \/ (Goto(p, next) /\ UNCHANGED <<request, claims, owner>>)
    PROVE  IInv'
<1>1. pc[p] = label /\ pc[p] \notin Generating \cup {"dead"} /\ pc[p] \in Writing
      BY DEF At, Ended
<1>2. CASE Fail(p)
      BY <1>1, <1>2, FailIInv
<1>3. CASE Goto(p, next) /\ UNCHANGED <<request, claims, owner>>
  <2>1. /\ next \in Labels \ Reserving
        /\ next \notin {"available", "reference", "reserve_env", "failed"} \cup Generating
        BY DEF Labels, Reserving, Writing, Ended
  <2>2. request' = request /\ claims' = claims /\ owner' = owner
        BY <1>3
  <2> QED BY <1>1, <1>3, <2>1, <2>2, Moved, Zenon
<1> QED BY <1>2, <1>3

(* One lemma per action whose shape is its own.                             *)
LEMMA AvailableIInv ==
    ASSUME IInv, NEW p \in Creators, ensureScaffoldTargetsAvailable(p) PROVE IInv'
<1> USE DEF ensureScaffoldTargetsAvailable, At
<1>1. pc[p] = "available" /\ claims[p] = <<>>
      BY DEF IInv, Books, Unclaimed
<1>2. PICK label \in {"failed", "reference"} : Goto(p, label)
      BY <1>1
<1>3. request' = request /\ claims' = claims /\ owner' = owner
      BY <1>1
<1> QED BY <1>1, <1>2, <1>3, Moved DEF Labels, Reserving, Writing, Generating, Ended

LEMMA ReferenceIInv ==
    ASSUME IInv, NEW p \in Creators, resolveScaffoldReference(p) PROVE IInv'
<1> USE DEF resolveScaffoldReference, At
<1>1. pc[p] = "reference" /\ claims[p] = <<>>
      BY DEF IInv, Books, Unclaimed
<1>2. PICK label \in {"failed", "reserve_env", "infrastructure"} :
          Goto(p, label) /\ (label = "infrastructure" => request[p].force)
      BY <1>1
<1>3. request' = request /\ claims' = claims /\ owner' = owner
      BY <1>1
<1> QED BY <1>1, <1>2, <1>3, Moved DEF Labels, Reserving, Writing, Generating, Ended

LEMMA ReserveIInv ==
    ASSUME IInv, NEW p \in Creators, reserveScaffoldArtifacts(p) PROVE IInv'
<1> USE DEF At
<1>1. ASSUME NEW label \in Labels, NEW a \in Artifacts \ {"variant"}, NEW next \in Labels,
             Reserve(p, label, a, next),
             label \notin Generating \cup {"dead"}, next \notin Generating,
             next \notin {"available", "reference", "reserve_env", "failed"},
             pc[p] = label /\ Goto(p, next) /\ Claim(p, a) /\ Free(a) => Held(p)'
      PROVE  IInv'
  <2>1. pc[p] = label
        BY <1>1 DEF Reserve
  <2>2. CASE Fail(p)
        BY <1>1, <2>1, <2>2, FailIInv
  <2>3. CASE Free(a) /\ Goto(p, next) /\ Claim(p, a)
        BY <1>1, <2>1, <2>3, Reserved
  <2> QED BY <1>1, <2>2, <2>3 DEF Reserve
<1>2. ASSUME NEW a \in Artifacts, NEW next \in Labels, Goto(p, next), Claim(p, a), Free(a)
      PROVE  /\ ToSet(claims'[p]) = ToSet(claims[p]) \cup {a}
             /\ pc'[p] = next /\ request' = request
  <2>1. Shape /\ Distinct(p) /\ claims[p] \in Seq(Artifacts) /\ None \notin Creators
        BY Nobody DEF IInv, Books, Shape
  <2>2. a \notin ToSet(claims[p])
        BY <1>2, <2>1 DEF Free, Exists, Distinct
  <2>3. /\ Append(claims[p], a) \in Seq(Artifacts)
        /\ ToSet(Append(claims[p], a)) = ToSet(claims[p]) \cup {a}
        /\ IsInjective(Append(claims[p], a))
        BY <2>1, <2>2, Claimed, Zenon DEF Distinct
  <2>4. claims'[p] = Append(claims[p], a) /\ pc'[p] = next /\ request' = request
        BY <1>2, <2>1 DEF Claim, Goto, Shape
  <2> QED BY <2>3, <2>4
<1>3. Held(p)
      BY DEF IInv, Books
<1> USE DEF Labels, Ended, Artifacts, Generating
<1>4. CASE Reserve(p, "reserve_env", "env",
                   IF WantsOverlay(p) THEN "reserve_overlay" ELSE "reserve_inventory")
  <2> DEFINE next == IF WantsOverlay(p) THEN "reserve_overlay" ELSE "reserve_inventory"
  <2>1. next \in Labels
        OBVIOUS
  <2>2. ASSUME Goto(p, next), Claim(p, "env"), Free("env") PROVE Held(p)'
    <3>1. /\ ToSet(claims'[p]) = ToSet(claims[p]) \cup {"env"}
          /\ pc'[p] = next /\ request' = request
          BY <1>2, <2>1, <2>2
    <3> QED BY <3>1 DEF Held, Writing, WantsOverlay
  <2> QED BY <1>1, <1>4, <2>1, <2>2
<1>5. CASE Reserve(p, "reserve_overlay", "overlay", "reserve_inventory")
  <2>1. ASSUME pc[p] = "reserve_overlay", Goto(p, "reserve_inventory"), Claim(p, "overlay"), Free("overlay")
        PROVE  Held(p)'
    <3>1. /\ ToSet(claims'[p]) = ToSet(claims[p]) \cup {"overlay"}
          /\ pc'[p] = "reserve_inventory" /\ request' = request
          BY <1>2, <2>1
    <3> QED BY <1>3, <2>1, <3>1 DEF Held, Writing, WantsOverlay
  <2> QED BY <1>1, <1>5, <2>1
<1>6. CASE Reserve(p, "reserve_inventory", "inventory", "infrastructure")
  <2>1. ASSUME pc[p] = "reserve_inventory", Goto(p, "infrastructure"), Claim(p, "inventory"), Free("inventory")
        PROVE  Held(p)'
    <3>1. /\ ToSet(claims'[p]) = ToSet(claims[p]) \cup {"inventory"}
          /\ pc'[p] = "infrastructure" /\ request' = request
          BY <1>2, <2>1
    <3> QED BY <1>3, <2>1, <3>1 DEF Held, Writing, WantsOverlay
  <2> QED BY <1>1, <1>6, <2>1
<1> QED BY <1>4, <1>5, <1>6 DEF reserveScaffoldArtifacts

LEMMA ConfigIInv ==
    ASSUME IInv, NEW p \in Creators, scaffoldLabConfigForPlan(p) PROVE IInv'
<1>1. pc[p] = "config"
      BY DEF scaffoldLabConfigForPlan, At
<1>2. CASE Fail(p)
      BY <1>1, <1>2, FailIInv DEF Generating
<1>3. CASE Goto(p, "inventory") /\ UNCHANGED <<request, claims>>
           /\ IF WantsOverlay(p) THEN copyBaseConfig(p) ELSE UNCHANGED <<owner, tree>>
  <2>1. owner' = owner \/ (WantsOverlay(p) /\ Made(p, "overlay"))
        BY <1>3 DEF copyBaseConfig
  <2> QED BY <1>1, <1>3, <2>1, Moved DEF Labels, Ended, Reserving, Writing, Generating, Artifacts
<1> QED BY <1>2, <1>3 DEF scaffoldLabConfigForPlan

LEMMA InventoryIInv ==
    ASSUME IInv, NEW p \in Creators, scaffoldInventory(p) PROVE IInv'
<1>1. pc[p] = "inventory"
      BY DEF scaffoldInventory, At
<1>2. CASE Fail(p)
      BY <1>1, <1>2, FailIInv DEF Generating
<1>3. CASE ~Fail(p)
  <2>1. PICK label \in {"created", "repoint", "filter"} : Goto(p, label)
        BY <1>3 DEF scaffoldInventory
  <2>2. Made(p, "inventory") /\ request' = request /\ claims' = claims
        BY <1>3 DEF scaffoldInventory
  <2> QED BY <1>1, <2>1, <2>2, Moved DEF Labels, Ended, Reserving, Writing, Generating, Artifacts
<1> QED BY <1>2, <1>3

LEMMA TargetIInv ==
    ASSUME IInv, NEW p \in Creators, createFreshTarget(p) PROVE IInv'
<1>1. pc[p] = "new_target"
      BY DEF createFreshTarget, At
<1> QED BY <1>1, FailIInv, TargetMade DEF createFreshTarget, Generating

LEMMA TransformIInv ==
    ASSUME IInv, NEW p \in Creators, Transform(p) \/ writeCompletionMarker(p) PROVE IInv'
<1>1. pc[p] \in Generating
      BY DEF Transform, writeCompletionMarker, At, Generating
<1>2. CASE TransformFails(p)
      BY <1>1, <1>2, Tracked DEF TransformFails
<1>3. CASE Goto(p, "marker") /\ UNCHANGED <<request, claims, owner>>
      BY <1>1, <1>3, Moved DEF Labels, Ended, Reserving, Writing, Generating
<1>4. CASE Goto(p, "inventory") /\ claims' = Track(p) /\ UNCHANGED <<request, owner>>
      BY <1>1, <1>4, Tracked
<1> QED BY <1>2, <1>3, <1>4 DEF Transform, writeCompletionMarker

LEMMA CleanupIInv ==
    ASSUME IInv, NEW p \in Creators, cleanupFailedScaffold(p) PROVE IInv'
<1>1. pc[p] = "cleanup"
      BY DEF cleanupFailedScaffold, At
<1>2. CASE claims[p] = <<>>
  <2>1. Goto(p, "failed") /\ request' = request /\ claims' = claims /\ owner' = owner
        BY <1>2 DEF cleanupFailedScaffold
  <2> QED BY <1>1, <1>2, <2>1, Moved DEF Labels, Ended, Reserving, Writing, Generating
<1>3. CASE claims[p] # <<>>
  <2>1. PICK left \in {None, "earlier"} : owner' = [owner EXCEPT ![Last(claims[p])] = left]
        BY <1>3 DEF cleanupFailedScaffold, RemoveAll, Sticks
  <2> QED BY <1>1, <1>3, <2>1, RolledBack DEF cleanupFailedScaffold
<1> QED BY <1>2, <1>3

LEMMA CrashIInv ==
    ASSUME IInv, NEW p \in Creators, Crash(p) PROVE IInv'
<1>1. pc[p] # "dead" /\ Goto(p, "dead") /\ request' = request /\ claims' = claims /\ owner' = owner
      BY DEF Crash, Ended
<1> QED BY <1>1, Moved DEF Labels, Ended, Reserving, Writing, Generating

LEMMA StepIInv ==
    ASSUME IInv, NEW p \in Creators, Step(p) PROVE IInv'
<1> USE DEF Ended, Writing, Generating
<1>1. CASE createEnvHCL(p)
      BY <1>1, WriteIInv DEF createEnvHCL
<1>2. CASE createRegionHCL(p)
      BY <1>2, WriteIInv DEF createRegionHCL
<1>3. CASE copyInfrastructure(p)
      BY <1>3, WriteIInv DEF copyInfrastructure
<1>4. ASSUME NEW lab, Repoint(p, lab) PROVE IInv'
  <2>1. PICK next \in {"new_target", "config"} :
            Fail(p) \/ (Goto(p, next) /\ UNCHANGED <<request, claims, owner>>)
        BY <1>4 DEF Repoint
  <2> QED BY <1>4, <2>1, RewriteIInv DEF Repoint
<1>5. CASE repointInfrastructureLab(p) \/ renderTemplateTree(p)
      BY <1>4, <1>5 DEF repointInfrastructureLab, renderTemplateTree
<1>6. CASE repointInventoryDomain(p)
      BY <1>6, RewriteIInv DEF repointInventoryDomain, Rewrite
<1>7. CASE FilterHosts(p)
      BY <1>7, RewriteIInv DEF FilterHosts, Rewrite
<1>8. CASE EnsureTopology(p)
      BY <1>8, RewriteIInv DEF EnsureTopology
<1> QED BY <1>1, <1>2, <1>3, <1>5, <1>6, <1>7, <1>8, AvailableIInv, ReferenceIInv, ReserveIInv,
           ConfigIInv, TargetIInv, TransformIInv, InventoryIInv, CleanupIInv DEF Step

THEOREM Invariance == Spec => []IInv
<1>1. IInv /\ [Next]_vars => IInv'
  <2>1. ASSUME IInv, UNCHANGED vars PROVE IInv'
        BY <2>1 DEF vars, IInv, Shape, Books, Distinct, Unclaimed, Held, Target, Accounted, WantsOverlay
  <2>2. ASSUME IInv, Next PROVE IInv'
        BY <2>1, <2>2, StepIInv, CrashIInv DEF Next, Done
  <2> QED BY <2>1, <2>2
<1> QED BY <1>1, InitIInv, PTL DEF Spec

(* For any number of invocations and any requests: an invocation may roll   *)
(* back only what is its own, and one that failed without --force has left  *)
(* nothing behind.                                                          *)
THEOREM RollbackIsExact == Spec => []RollbackExact
<1>1. IInv => RollbackExact
  <2> SUFFICES ASSUME IInv PROVE RollbackExact
      OBVIOUS
  <2>1. ClaimsAreOwn
        BY DEF IInv, Books, Distinct, ClaimsAreOwn
  <2>2. FailedLeavesNothing
    <3> SUFFICES ASSUME NEW p \in Creators, pc[p] = "failed", ~request[p].force, NEW a \in Artifacts
                 PROVE  owner[a] # p
        BY DEF FailedLeavesNothing
    <3>1. claims[p] = <<>> /\ ToSet(<<>>) = {}
          BY DEF IInv, Books, Unclaimed, ToSet
    <3> QED BY <3>1 DEF IInv, Books, Accounted
  <2> QED BY <2>1, <2>2 DEF RollbackExact
<1> QED BY <1>1, Invariance, PTL

(* For any number of invocations that race for a name: only one of those    *)
(* without --force succeeds.                                                *)
THEOREM AtMostOneWins == Spec => []OneWinner
<1>1. IInv => OneWinner
  <2> SUFFICES ASSUME IInv, NEW p \in Creators, NEW q \in Creators,
                      pc[p] = "created", pc[q] = "created", ~request[p].force, ~request[q].force
               PROVE  p = q
      BY DEF OneWinner
  <2>1. "env" \in ToSet(claims[p]) /\ "env" \in ToSet(claims[q])
        BY DEF IInv, Books, Held, Writing
  <2> QED BY <2>1 DEF IInv, Books, Distinct
<1> QED BY <1>1, Invariance, PTL

-----------------------------------------------------------------------------
(* What a winner leaves behind.  Each call finds what the calls before it   *)
(* wrote (Left), because what an invocation has reserved no other touches   *)
(* (Touches): that is where --force must be out of play.                    *)
FromInventory == {"inventory", "repoint", "filter", "topology", "created"}
FromLab == FromInventory \cup {"new_target", "transform", "marker", "config"}
FromCopied == FromLab \cup {"repoint_lab"}
FromCopy == FromCopied \cup {"copy"}
FromRegion == FromCopy \cup {"region"}
AfterReference == FromRegion \cup {"infrastructure", "reserve_env", "reserve_overlay", "reserve_inventory"}

Contents ==
    /\ tree \in [Artifacts -> SUBSET Parts]
    /\ DOMAIN doc.hosts \subseteq Hosts /\ DOMAIN doc.groups \subseteq Groups
    /\ points \in {None, "goad", "lab", "variant", "template"}

\* What is nobody's is empty.
Blank == \A a \in Artifacts : owner[a] = None => tree[a] = {}

\* An invocation claims one of overlay and variant at most.
Few(p) ==
    /\ Len(claims[p]) <= 3
    /\ pc[p] = "reserve_overlay" => Len(claims[p]) <= 1
    /\ pc[p] = "reserve_inventory" => Len(claims[p]) <= 2
    /\ request[p].variant /\ pc[p] = "reserve_inventory" => Len(claims[p]) <= 1
    /\ request[p].variant /\ pc[p] \in Writing \ FromInventory => Len(claims[p]) <= 2

\* Where a request leads.
OnCourse(p) ==
    /\ pc[p] \in {"new_target", "transform", "marker"} => request[p].variant
    /\ pc[p] \in {"config", "reserve_overlay"} => ~request[p].variant
    /\ pc[p] \in {"repoint", "filter", "topology"} => IsActiveDir(p)
    /\ pc[p] \in AfterReference /\ IsActiveDir(p) => LabHosts \subseteq TemplateHosts

\* What each call has left for those after it.
Infrastructure(p) ==
    /\ pc[p] \in FromRegion => "env.hcl" \in tree["env"]
    /\ pc[p] \in FromCopy => "region.hcl" \in tree["env"]
    /\ pc[p] \in FromCopied /\ IsActiveDir(p) => LabHosts \subseteq tree["env"]
    /\ owner["env"] = p /\ IsActiveDir(p) => tree["env"] \cap TemplateHosts \subseteq LabHosts
    /\ pc[p] \in FromLab => points = LabName(p)

Configuration(p) ==
    /\ pc[p] \in FromInventory /\ WantsOverlay(p) => tree["overlay"] # {}
    /\ request[p].variant /\ pc[p] \in FromInventory \cup {"marker"} => "files" \in tree["variant"]
    /\ request[p].variant /\ pc[p] \in FromInventory =>
          "marker" \in tree["variant"] /\ "variant" \in ToSet(claims[p])

\* No machine of the reference; the lab's own hosts and domain; its groups.
NoMachine(d) == \A h \in DOMAIN d.hosts : d.hosts[h].addr \notin MachineIds
OwnDomain(p, d) ==
    LabName(p) # "goad" => "domain_name" \in DOMAIN d.vars /\ d.vars["domain_name"] = LabName(p)
OwnHosts(d) == Lowered(DOMAIN d.hosts) \cap KnownHosts \subseteq LabHosts
Fit(d) == Contract(d, filterCanonicalTopology(Canonical, d), Canonical, Transport)
Inventoried(p) ==
    IsActiveDir(p) =>
        /\ pc[p] \in {"repoint", "filter", "topology", "created"} => NoMachine(doc)
        /\ pc[p] \in {"filter", "topology", "created"} => OwnDomain(p, doc)
        /\ pc[p] \in {"topology", "created"} => OwnHosts(doc)
        /\ pc[p] = "created" => Fit(doc)

Left(p) == Infrastructure(p) /\ Configuration(p) /\ Inventoried(p)

JInv ==
    /\ IInv /\ Contents /\ Blank
    /\ \A p \in Creators : Few(p) /\ OnCourse(p)
    /\ Unforced => \A p \in Creators : Left(p)

\* A step of p moves p alone, and leaves what others own as it was.
Alone(p) ==
    /\ request' = request
    /\ \A q \in Creators \ {p} : pc'[q] = pc[q] /\ claims'[q] = claims[q]
Touches(p) ==
    /\ \A a \in Artifacts : /\ owner'[a] \in {owner[a], None, "earlier", p}
                            /\ owner[a] \notin {None, p} => owner'[a] = owner[a] /\ tree'[a] = tree[a]
    /\ owner["env"] \notin {None, p} => points' = points
    /\ owner["inventory"] \notin {None, p} => doc' = doc

\* What is to be shown of a step of p.
Keeps(p) ==
    /\ Contents' /\ Blank'
    /\ Few(p)' /\ OnCourse(p)' /\ Alone(p)
    /\ Unforced => Touches(p) /\ Left(p)'

-----------------------------------------------------------------------------
(* Who writes owns what it writes.                                          *)
LEMMA Owns ==
    ASSUME IInv, Unforced, NEW p \in Creators
    PROVE  /\ pc[p] \in Writing => owner["env"] = p /\ owner["inventory"] = p
           /\ pc[p] \in Writing /\ WantsOverlay(p) => owner["overlay"] = p
           /\ pc[p] \in Generating => owner["variant"] = p
           /\ \A a \in ToSet(claims[p]) : owner[a] = p
BY DEF IInv, Unforced, Books, Distinct, Held, Target, Generating

(* What an invocation is left with, no other invocation takes away.         *)
LEMMA Others ==
    ASSUME JInv, Unforced, NEW p \in Creators, Alone(p), Touches(p), NEW q \in Creators \ {p}
    PROVE  Left(q)'
<1>1. /\ Left(q) /\ q \notin {p, None, "earlier"}
      BY Nobody DEF JInv
<1>2. /\ pc'[q] = pc[q] /\ claims'[q] = claims[q] /\ request'[q] = request[q]
      BY DEF Alone
<1>3. /\ pc[q] \in Writing => owner["env"] = q /\ owner["inventory"] = q
      /\ pc[q] \in Writing /\ WantsOverlay(q) => owner["overlay"] = q
      /\ pc[q] \in Generating => owner["variant"] = q
      /\ \A a \in ToSet(claims[q]) : owner[a] = q
      BY Owns DEF JInv
<1>4. \A a \in Artifacts : /\ owner[a] = q => owner'[a] = q /\ tree'[a] = tree[a]
                           /\ owner'[a] = q => owner[a] = q
      BY <1>1 DEF Touches
<1>5. /\ owner["env"] = q => points' = points
      /\ owner["inventory"] = q => doc' = doc
      BY <1>1 DEF Touches
<1>6. Infrastructure(q)'
      BY <1>1, <1>2, <1>3, <1>4, <1>5 DEF Left, Infrastructure, IsActiveDir, LabName, Artifacts,
         Writing, FromInventory, FromLab, FromCopied, FromCopy, FromRegion
<1>7. Configuration(q)'
      BY <1>1, <1>2, <1>3, <1>4 DEF Left, Configuration, WantsOverlay, Artifacts,
         Writing, Generating, FromInventory
<1>8. Inventoried(q)'
  <2>1. CASE pc[q] \in Writing
    <3>1. doc' = doc
          BY <2>1, <1>3, <1>5
    <3> QED BY <1>1, <1>2, <3>1 DEF Left, Inventoried, IsActiveDir, OwnDomain, LabName
  <2>2. CASE pc[q] \notin Writing
        BY <1>2, <2>2 DEF Inventoried, Writing
  <2> QED BY <2>1, <2>2
<1> QED BY <1>6, <1>7, <1>8 DEF Left

(* A step that writes nothing, and ends up where nothing is asked of it.    *)
LEMMA Passed ==
    ASSUME JInv, NEW p \in Creators, NEW label \in Labels \ FromRegion, Goto(p, label),
           UNCHANGED <<request, owner, tree, doc, points>>,
           \A q \in Creators \ {p} : claims'[q] = claims[q],
           Few(p)', OnCourse(p)'
    PROVE  Keeps(p)
<1>1. /\ pc'[p] = label /\ \A q \in Creators \ {p} : pc'[q] = pc[q]
      BY DEF Goto, JInv, IInv, Shape
<1>2. Contents' /\ Blank'
      BY DEF JInv, Contents, Blank
<1>3. Alone(p) /\ Touches(p)
      BY <1>1 DEF Alone, Touches
<1>4. ASSUME Left(p) PROVE Left(p)'
  <2>1. pc'[p] \notin FromRegion
        BY <1>1
  <2>2. Infrastructure(p)'
        BY <1>4, <2>1 DEF Left, Infrastructure, IsActiveDir, FromLab, FromCopied, FromCopy, FromRegion
  <2>3. Configuration(p)' /\ Inventoried(p)'
        BY <2>1 DEF Configuration, Inventoried, FromInventory, FromLab, FromCopied, FromCopy, FromRegion
  <2> QED BY <2>2, <2>3 DEF Left
<1> QED BY <1>2, <1>3, <1>4 DEF Keeps, JInv

(* A call that fails, and one that gives up.                                *)
LEMMA FailKeeps ==
    ASSUME JInv, NEW p \in Creators, NEW label \in {"cleanup", "failed", "dead"}, Goto(p, label),
           UNCHANGED <<request, claims, owner, tree, doc, points>>
    PROVE  Keeps(p)
<1>1. pc'[p] = label /\ Few(p) /\ label \in Labels \ FromRegion
      BY DEF Goto, JInv, IInv, Shape, Labels, Ended, FromInventory, FromLab, FromCopied, FromCopy, FromRegion
<1>2. Few(p)' /\ OnCourse(p)'
      BY <1>1 DEF Few, OnCourse, AfterReference, Writing, FromInventory, FromLab, FromCopied, FromCopy, FromRegion
<1> QED BY <1>1, <1>2, Passed

LEMMA AvailableKeeps ==
    ASSUME JInv, NEW p \in Creators, ensureScaffoldTargetsAvailable(p) PROVE Keeps(p)
<1>1. PICK label \in {"failed", "reference"} : Goto(p, label)
      BY DEF ensureScaffoldTargetsAvailable
<1>2. UNCHANGED <<request, claims, owner, tree, doc, points>>
      BY DEF ensureScaffoldTargetsAvailable
<1>3. pc'[p] = label /\ Few(p) /\ label \in Labels \ FromRegion
      BY <1>1 DEF Goto, JInv, IInv, Shape, Labels, Ended, FromInventory, FromLab, FromCopied, FromCopy, FromRegion
<1>4. Few(p)' /\ OnCourse(p)'
      BY <1>2, <1>3 DEF Few, OnCourse, AfterReference, Writing, FromInventory, FromLab, FromCopied, FromCopy, FromRegion
<1> QED BY <1>1, <1>2, <1>3, <1>4, Passed

LEMMA ReferenceKeeps ==
    ASSUME JInv, NEW p \in Creators, resolveScaffoldReference(p) PROVE Keeps(p)
<1>1. PICK label \in {"failed", "reserve_env", "infrastructure"} : Goto(p, label)
      BY DEF resolveScaffoldReference
<1>2. /\ UNCHANGED <<request, claims, owner, tree, doc, points>>
      /\ label # "failed" /\ IsActiveDir(p) => LabHosts \subseteq TemplateHosts
  <2>1. Goto(p, "failed") => label = "failed"
        BY <1>1 DEF Goto, JInv, IInv, Shape
  <2> QED BY <2>1 DEF resolveScaffoldReference, missingTemplateHosts
<1>3. pc'[p] = label /\ label \in Labels \ FromRegion
      BY <1>1 DEF Goto, JInv, IInv, Shape, Labels, Ended, FromInventory, FromLab, FromCopied, FromCopy, FromRegion
<1>4. claims[p] = <<>>
      BY DEF resolveScaffoldReference, At, JInv, IInv, Books, Unclaimed
<1>5. Few(p)' /\ OnCourse(p)'
  <2>1. Len(claims'[p]) = 0
        BY <1>2, <1>4
  <2> QED BY <1>2, <1>3, <2>1 DEF Few, OnCourse, IsActiveDir, AfterReference, Writing,
         FromInventory, FromLab, FromCopied, FromCopy, FromRegion
<1> QED BY <1>1, <1>2, <1>3, <1>5, Passed

(* A reservation finds its path empty.                                      *)
LEMMA ReserveKeeps ==
    ASSUME JInv, NEW p \in Creators, reserveScaffoldArtifacts(p) PROVE Keeps(p)
<1>1. /\ IInv /\ Shape /\ Contents /\ Blank /\ Few(p) /\ OnCourse(p) /\ claims[p] \in Seq(Artifacts)
      BY DEF JInv, IInv, Shape
<1>2. ASSUME NEW label, NEW a \in Artifacts, NEW next \in Labels \ FromRegion,
             Reserve(p, label, a, next),
             pc[p] = label /\ pc'[p] = next /\ request' = request
                 /\ Len(claims'[p]) = Len(claims[p]) + 1 => Few(p)' /\ OnCourse(p)'
      PROVE  Keeps(p)
  <2>1. CASE Fail(p)
        BY <2>1, FailKeeps DEF Fail
  <2>2. CASE Free(a) /\ Goto(p, next) /\ Claim(p, a)
    <3>1. /\ pc'[p] = next /\ pc[p] = label /\ owner[a] = None /\ p # None
          /\ request' = request /\ tree' = tree /\ doc' = doc /\ points' = points
          /\ owner' = [owner EXCEPT ![a] = p]
          /\ \A q \in Creators \ {p} : pc'[q] = pc[q] /\ claims'[q] = claims[q]
          /\ claims'[p] = Append(claims[p], a)
          BY <1>1, <1>2, <2>2, Nobody DEF Free, Exists, Goto, Claim, Reserve, At, Shape
    <3>2. Len(Append(claims[p], a)) = Len(claims[p]) + 1
          BY <1>1
    <3>3. Few(p)' /\ OnCourse(p)'
          BY <1>2, <3>1, <3>2
    <3>4. owner'[a] = p /\ \A b \in Artifacts \ {a} : owner'[b] = owner[b]
          BY <3>1, <1>1 DEF Shape
    <3>5. Contents' /\ Blank'
          BY <3>1, <3>4, <1>1 DEF Contents, Blank
    <3>6. Alone(p) /\ Touches(p)
          BY <3>1, <3>4 DEF Alone, Touches
    <3>7. ASSUME Left(p) PROVE Left(p)'
      <4>1. pc'[p] \notin FromRegion
            BY <3>1
      <4>2. Infrastructure(p)'
        <5>1. tree["env"] = {} \/ owner["env"] = owner'["env"]
              BY <3>1, <3>4, <1>1 DEF Blank, Artifacts
        <5> QED BY <3>7, <3>1, <4>1, <5>1 DEF Left, Infrastructure, IsActiveDir, FromLab, FromCopied, FromCopy, FromRegion
      <4>3. Configuration(p)' /\ Inventoried(p)'
            BY <4>1 DEF Configuration, Inventoried, FromInventory, FromLab, FromCopied, FromCopy, FromRegion
      <4> QED BY <4>2, <4>3 DEF Left
    <3> QED BY <3>3, <3>5, <3>6, <3>7 DEF Keeps, JInv
  <2> QED BY <1>2, <2>1, <2>2 DEF Reserve
<1> DEFINE n == Len(claims[p])
           m == Len(claims'[p])
<1>3. n \in Nat
      BY <1>1
<1> USE DEF Labels, Ended, Artifacts, AfterReference, Writing, FromInventory, FromLab, FromCopied, FromCopy,
            FromRegion, WantsOverlay, IsActiveDir
<1>4. CASE Reserve(p, "reserve_env", "env",
                   IF WantsOverlay(p) THEN "reserve_overlay" ELSE "reserve_inventory")
  <2> DEFINE next == IF WantsOverlay(p) THEN "reserve_overlay" ELSE "reserve_inventory"
  <2>1. next \in Labels \ FromRegion
        OBVIOUS
  <2>2. pc[p] = "reserve_env" => n = 0
        BY <1>1 DEF IInv, Books, Unclaimed
  <2>3. ASSUME pc[p] = "reserve_env", pc'[p] = next, request' = request, m = n + 1
        PROVE  Few(p)' /\ OnCourse(p)'
    <3>1. m = 1
          BY <2>2, <2>3
    <3>2. pc'[p] \in {"reserve_overlay", "reserve_inventory"}
          BY <2>3
    <3>3. Few(p)'
      <4> HIDE DEF m, next
      <4>1. m <= 1 /\ m <= 2 /\ m <= 3
            BY <3>1
      <4>2. Len(claims'[p]) = m
            BY DEF m
      <4> QED BY <3>2, <4>1, <4>2 DEF Few
    <3>4. OnCourse(p)'
          BY <1>1, <2>3 DEF OnCourse
    <3> QED BY <3>3, <3>4
  <2> QED BY <1>2, <1>4, <2>1, <2>3
<1>5. CASE Reserve(p, "reserve_overlay", "overlay", "reserve_inventory")
  <2>1. ASSUME pc[p] = "reserve_overlay", pc'[p] = "reserve_inventory", request' = request, m = n + 1
        PROVE  Few(p)' /\ OnCourse(p)'
    <3>1. m <= 2 /\ ~request[p].variant
          BY <1>1, <1>3, <2>1 DEF Few, OnCourse
    <3>2. Few(p)'
          BY <2>1, <3>1, <1>3 DEF Few
    <3>3. OnCourse(p)'
          BY <1>1, <2>1 DEF OnCourse
    <3> QED BY <3>2, <3>3
  <2> QED BY <1>2, <1>5, <2>1
<1>6. CASE Reserve(p, "reserve_inventory", "inventory", "infrastructure")
  <2>1. ASSUME pc[p] = "reserve_inventory", pc'[p] = "infrastructure", request' = request, m = n + 1
        PROVE  Few(p)' /\ OnCourse(p)'
    <3>1. m <= 3 /\ (request[p].variant => m <= 2)
          BY <1>1, <1>3, <2>1 DEF Few
    <3>2. Few(p)'
          BY <2>1, <3>1, <1>3 DEF Few
    <3>3. OnCourse(p)'
          BY <1>1, <2>1 DEF OnCourse
    <3> QED BY <3>2, <3>3
  <2> QED BY <1>2, <1>6, <2>1
<1> QED BY <1>4, <1>5, <1>6 DEF reserveScaffoldArtifacts

(* A write into one's own tree, made on demand or not.                      *)
LEMMA Written ==
    ASSUME JInv, NEW p \in Creators, NEW a \in Artifacts, NEW new \in SUBSET Parts,
           tree' = [tree EXCEPT ![a] = new],
           Made(p, a) \/ (owner' = owner /\ owner[a] = p),
           Alone(p), doc' = doc, points' = points, Unforced => owner[a] = p
    PROVE  /\ Contents' /\ Blank' /\ tree'[a] = new
           /\ \A b \in Artifacts \ {a} : tree'[b] = tree[b]
           /\ Unforced => owner' = owner /\ Touches(p)
<1>1. /\ Shape /\ Contents /\ Blank /\ p # None
      BY Nobody DEF JInv, IInv
<1>2. tree'[a] = new /\ \A b \in Artifacts \ {a} : tree'[b] = tree[b]
      BY <1>1 DEF Contents
<1>3. /\ owner'[a] # None /\ (owner[a] = p => owner' = owner)
      /\ \A b \in Artifacts \ {a} : owner'[b] = owner[b]
      BY <1>1 DEF Shape, Made
<1>4. Contents'
      BY <1>1, <1>2 DEF Contents
<1>5. Blank'
      BY <1>1, <1>2, <1>3 DEF Blank
<1>6. Unforced => owner' = owner /\ Touches(p)
      BY <1>2, <1>3 DEF Touches
<1> QED BY <1>2, <1>4, <1>5, <1>6

LEMMA Stays ==
    ASSUME NEW p \in Creators, Few(p), OnCourse(p), request' = request, claims'[p] = claims[p],
           pc[p] \in Writing, pc'[p] \in Writing,
           pc'[p] \in FromInventory \/ pc[p] \notin FromInventory
    PROVE  Few(p)'
BY DEF Few, Writing, FromInventory


(* env.hcl, region.hcl and the reference's tree.                            *)
LEMMA WriteKeeps ==
    ASSUME JInv, NEW p \in Creators,
           createEnvHCL(p) \/ createRegionHCL(p) \/ copyInfrastructure(p)
    PROVE  Keeps(p)
<1> USE DEF Writing, FromInventory, FromLab, FromCopied, FromCopy, FromRegion, AfterReference
<1>1. /\ IInv /\ Shape /\ Contents /\ Few(p) /\ OnCourse(p) /\ "env" \in Artifacts
      BY DEF JInv, IInv, Artifacts
<1>2. ASSUME NEW label \in {"infrastructure", "region", "copy"},
             NEW next \in {"region", "copy", "repoint_lab"}, NEW parts \in SUBSET Parts,
             Write(p, label, next, parts),
             ASSUME Unforced, Left(p), owner["env"] = p, pc[p] = label,
                    tree'["env"] = tree["env"] \cup parts
             PROVE  /\ next \in FromRegion => "env.hcl" \in tree'["env"]
                    /\ next \in FromCopy => "region.hcl" \in tree'["env"]
                    /\ next \in FromCopied /\ IsActiveDir(p) => LabHosts \subseteq tree'["env"]
                    /\ IsActiveDir(p) => tree'["env"] \cap TemplateHosts \subseteq LabHosts
      PROVE  Keeps(p)
  <2>1. CASE Fail(p)
        BY <2>1, FailKeeps DEF Fail
  <2>2. CASE Goto(p, next) /\ Made(p, "env") /\ tree' = [tree EXCEPT !["env"] = @ \cup parts]
             /\ UNCHANGED <<request, claims, doc, points>>
    <3>1. pc[p] = label /\ pc'[p] = next /\ Alone(p)
          BY <1>1, <1>2, <2>2 DEF Write, At, Goto, Alone, Shape
    <3>2. Unforced => owner["env"] = p
          BY <1>1, <3>1, Owns
    <3>3. tree["env"] \cup parts \in SUBSET Parts
          BY <1>1 DEF Contents
    <3>4. /\ Contents' /\ Blank' /\ tree'["env"] = tree["env"] \cup parts
          /\ \A b \in Artifacts \ {"env"} : tree'[b] = tree[b]
          /\ Unforced => owner' = owner /\ Touches(p)
          BY <1>1, <2>2, <3>1, <3>2, <3>3, Written
    <3>5. Few(p)'
          BY <1>1, <2>2, <3>1, Stays
    <3>6. OnCourse(p)'
          BY <1>1, <2>2, <3>1 DEF OnCourse, IsActiveDir
    <3>7. ASSUME Unforced, Left(p) PROVE Left(p)'
      <4>1. Infrastructure(p)'
            BY <1>2, <2>2, <3>1, <3>2, <3>4, <3>7 DEF Infrastructure, IsActiveDir
      <4>2. Configuration(p)' /\ Inventoried(p)'
            BY <3>1 DEF Configuration, Inventoried
      <4> QED BY <4>1, <4>2 DEF Left
    <3> QED BY <3>1, <3>4, <3>5, <3>6, <3>7 DEF Keeps, JInv
  <2> QED BY <1>2, <2>1, <2>2 DEF Write
<1>3. {"env.hcl", "region.hcl"} \subseteq Parts /\ TemplateHosts \subseteq Parts
      BY DEF Parts
<1>4. {"env.hcl", "region.hcl"} \cap TemplateHosts = {}
      BY LabAssumption DEF LabAssumption
<1>5. CASE createEnvHCL(p)
  <2>1. Write(p, "infrastructure", "region", {"env.hcl"}) /\ {"env.hcl"} \in SUBSET Parts
        BY <1>3, <1>5 DEF createEnvHCL
  <2>2. ASSUME Unforced, Left(p), owner["env"] = p, pc[p] = "infrastructure",
               tree'["env"] = tree["env"] \cup {"env.hcl"}
        PROVE  /\ "env.hcl" \in tree'["env"]
               /\ "region" \in FromCopy => "region.hcl" \in tree'["env"]
               /\ IsActiveDir(p) => tree'["env"] \cap TemplateHosts \subseteq LabHosts
        BY <1>4, <2>2 DEF Left, Infrastructure
  <2> QED BY <1>2, <2>1, <2>2
<1>6. CASE createRegionHCL(p)
  <2>1. Write(p, "region", "copy", {"region.hcl"}) /\ {"region.hcl"} \in SUBSET Parts
        BY <1>3, <1>6 DEF createRegionHCL
  <2>2. ASSUME Unforced, Left(p), owner["env"] = p, pc[p] = "region",
               tree'["env"] = tree["env"] \cup {"region.hcl"}
        PROVE  /\ "env.hcl" \in tree'["env"]
               /\ "copy" \in FromCopy => "region.hcl" \in tree'["env"]
               /\ IsActiveDir(p) => tree'["env"] \cap TemplateHosts \subseteq LabHosts
        BY <1>4, <2>2 DEF Left, Infrastructure
  <2> QED BY <1>2, <2>1, <2>2
<1>7. CASE copyInfrastructure(p)
  <2> DEFINE copied == {h \in TemplateHosts : ~shouldSkipHostUnit(p, h)}
  <2>1. copied \in SUBSET Parts
        BY <1>3
  <2>2. pc[p] = "copy" /\ IsActiveDir(p) => LabHosts \subseteq copied /\ copied \subseteq LabHosts
        BY <1>1 DEF OnCourse, shouldSkipHostUnit
  <2>3. Write(p, "copy", "repoint_lab", copied)
        BY <1>7 DEF copyInfrastructure
  <2> HIDE DEF copied
  <2> QED BY <1>2, <2>1, <2>2, <2>3 DEF Left, Infrastructure
<1> QED BY <1>5, <1>6, <1>7

(* The tree is pointed at what the request is for.                          *)
LEMMA RepointKeeps ==
    ASSUME JInv, NEW p \in Creators, repointInfrastructureLab(p) \/ renderTemplateTree(p)
    PROVE  Keeps(p)
<1> USE DEF Writing, FromInventory, FromLab, FromCopied, FromCopy, FromRegion, AfterReference
<1>1. /\ IInv /\ Shape /\ Contents /\ Blank /\ Few(p) /\ OnCourse(p)
      /\ request[p].plan \in Plans /\ (request[p].variant => IsActiveDir(p))
      BY RequestsAssumption DEF RequestsAssumption, JInv, IInv, Shape, IsActiveDir
<1>2. LabName(p) \in {"goad", "lab", "variant", "template"} /\ (~IsActiveDir(p) => LabName(p) = "template")
      BY <1>1 DEF LabName, Plans, IsActiveDir
<1>3. Repoint(p, LabName(p))
      BY <1>2 DEF repointInfrastructureLab, renderTemplateTree
<1>4. CASE Fail(p)
      BY <1>4, FailKeeps DEF Fail
<1>5. CASE /\ Goto(p, IF request[p].variant THEN "new_target" ELSE "config")
           /\ points' = LabName(p) /\ UNCHANGED <<request, claims, owner, tree, doc>>
  <2>1. /\ pc[p] = "repoint_lab" /\ Alone(p)
        /\ pc'[p] = IF request[p].variant THEN "new_target" ELSE "config"
        BY <1>1, <1>3, <1>5 DEF Repoint, At, Goto, Alone, Shape
  <2>2. pc'[p] \in {"new_target", "config"}
        BY <2>1
  <2>3. Contents' /\ Blank'
        BY <1>1, <1>2, <1>5 DEF Contents, Blank
  <2>4. Few(p)'
        BY <1>1, <1>5, <2>1, <2>2, Stays
  <2>5. OnCourse(p)'
        BY <1>1, <1>5, <2>1, <2>2 DEF OnCourse, IsActiveDir
  <2>6. ASSUME Unforced, Left(p) PROVE Touches(p) /\ Left(p)'
    <3>1. owner["env"] = p
          BY <1>1, <2>1, <2>6, Owns
    <3>2. Touches(p)
          BY <1>5, <3>1 DEF Touches
    <3>3. Infrastructure(p)'
          BY <1>5, <2>1, <2>2, <2>6 DEF Left, Infrastructure, IsActiveDir, LabName
    <3>4. Configuration(p)' /\ Inventoried(p)'
          BY <2>2 DEF Configuration, Inventoried
    <3> QED BY <3>2, <3>3, <3>4 DEF Left
  <2> QED BY <2>1, <2>3, <2>4, <2>5, <2>6 DEF Keeps, JInv
<1> QED BY <1>3, <1>4, <1>5 DEF Repoint

(* The overlay of GOAD, where the request has no variant.                   *)
LEMMA ConfigKeeps ==
    ASSUME JInv, NEW p \in Creators, scaffoldLabConfigForPlan(p)
    PROVE  Keeps(p)
<1> USE DEF Writing, FromInventory, FromLab, FromCopied, FromCopy, FromRegion, AfterReference
<1>1. /\ IInv /\ Shape /\ Contents /\ Blank /\ Few(p) /\ OnCourse(p) /\ "overlay" \in Artifacts /\ "env" \in Artifacts
      BY DEF JInv, IInv, Artifacts
<1>2. CASE Fail(p)
      BY <1>2, FailKeeps DEF Fail
<1>3. CASE /\ Goto(p, "inventory") /\ UNCHANGED <<request, claims, doc, points>>
           /\ IF WantsOverlay(p) THEN copyBaseConfig(p) ELSE UNCHANGED <<owner, tree>>
  <2>1. /\ pc[p] = "config" /\ Alone(p) /\ pc'[p] = "inventory"
        BY <1>1, <1>3 DEF scaffoldLabConfigForPlan, At, Goto, Alone, Shape
  <2>2. Few(p)'
        BY <1>1, <1>3, <2>1, Stays
  <2>3. OnCourse(p)'
        BY <1>1, <1>3, <2>1 DEF OnCourse, IsActiveDir
  <2>4. ~request[p].variant
        BY <1>1, <2>1 DEF OnCourse
  <2>5. ASSUME Unforced => owner' = owner /\ Touches(p), Contents', Blank', tree'["env"] = tree["env"],
               WantsOverlay(p) => tree'["overlay"] # {}
        PROVE  Keeps(p)
    <3>1. ASSUME Unforced, Left(p) PROVE Left(p)'
      <4>1. Infrastructure(p)'
            BY <1>3, <2>1, <2>5, <3>1 DEF Left, Infrastructure, IsActiveDir, LabName
      <4>2. Configuration(p)' /\ Inventoried(p)'
            BY <1>3, <2>1, <2>4, <2>5 DEF Configuration, Inventoried, WantsOverlay
      <4> QED BY <4>1, <4>2 DEF Left
    <3> QED BY <2>1, <2>2, <2>3, <2>5, <3>1 DEF Keeps, JInv
  <2>6. CASE WantsOverlay(p)
    <3>1. Unforced => owner["overlay"] = p
          BY <1>1, <2>1, <2>6, Owns
    <3>2. /\ Made(p, "overlay") /\ tree' = [tree EXCEPT !["overlay"] = {"json"}]
          /\ {"json"} \in SUBSET Parts
          BY <1>3, <2>6 DEF copyBaseConfig, Parts
    <3>3. /\ Contents' /\ Blank' /\ tree'["overlay"] = {"json"}
          /\ \A b \in Artifacts \ {"overlay"} : tree'[b] = tree[b]
          /\ Unforced => owner' = owner /\ Touches(p)
          BY <1>1, <1>3, <2>1, <3>1, <3>2, Written
    <3> QED BY <1>1, <2>5, <3>3
  <2>7. CASE ~WantsOverlay(p)
    <3>1. owner' = owner /\ tree' = tree
          BY <1>3, <2>7
    <3>2. Contents' /\ Blank'
          BY <1>1, <1>3, <3>1 DEF Contents, Blank
    <3>3. Touches(p)
          BY <1>3, <3>1 DEF Touches
    <3> QED BY <2>5, <2>7, <3>1, <3>2, <3>3
  <2> QED BY <2>6, <2>7
<1> QED BY <1>2, <1>3 DEF scaffoldLabConfigForPlan

(* The generator's target, its files and its marker.                        *)
LEMMA TargetKeeps ==
    ASSUME JInv, NEW p \in Creators, createFreshTarget(p)
    PROVE  Keeps(p)
<1> USE DEF Writing, FromInventory, FromLab, FromCopied, FromCopy, FromRegion, AfterReference
<1>1. /\ IInv /\ Shape /\ Contents /\ Blank /\ Few(p) /\ OnCourse(p) /\ "variant" \in Artifacts /\ p # None
      /\ "env" \in Artifacts
      BY Nobody DEF JInv, IInv, Artifacts
<1>2. CASE Fail(p)
      BY <1>2, FailKeeps DEF Fail
<1>3. CASE /\ Free("variant") /\ owner' = [owner EXCEPT !["variant"] = p] /\ Goto(p, "transform")
           /\ UNCHANGED <<request, claims, tree, doc, points>>
  <2>1. /\ pc[p] = "new_target" /\ Alone(p) /\ pc'[p] = "transform" /\ owner["variant"] = None
        /\ owner'["variant"] = p /\ \A a \in Artifacts \ {"variant"} : owner'[a] = owner[a]
        BY <1>1, <1>3 DEF createFreshTarget, At, Goto, Alone, Shape, Free, Exists
  <2>2. Few(p)'
        BY <1>1, <1>3, <2>1, Stays
  <2>3. OnCourse(p)'
        BY <1>1, <1>3, <2>1 DEF OnCourse, IsActiveDir
  <2>4. Contents' /\ Blank'
        BY <1>1, <1>3, <2>1 DEF Contents, Blank
  <2>5. Touches(p)
        BY <1>3, <2>1 DEF Touches
  <2>6. ASSUME Left(p) PROVE Left(p)'
    <3>1. Infrastructure(p)'
          BY <1>1, <1>3, <2>1, <2>6 DEF Left, Infrastructure, IsActiveDir, LabName
    <3>2. Configuration(p)' /\ Inventoried(p)'
          BY <2>1 DEF Configuration, Inventoried
    <3> QED BY <3>1, <3>2 DEF Left
  <2> QED BY <2>1, <2>2, <2>3, <2>4, <2>5, <2>6 DEF Keeps, JInv
<1> QED BY <1>2, <1>3 DEF createFreshTarget

LEMMA TrackAdds ==
    ASSUME JInv, NEW p \in Creators, pc[p] \in Generating, claims' = Track(p)
    PROVE  /\ Len(claims'[p]) <= 3
           /\ Unforced => "variant" \in ToSet(claims'[p])
           /\ \A q \in Creators \ {p} : claims'[q] = claims[q]
<1>1. /\ IInv /\ Shape /\ Few(p) /\ OnCourse(p) /\ claims[p] \in Seq(Artifacts) /\ "variant" \in Artifacts
      BY DEF JInv, IInv, Shape, Artifacts
<1>2. Len(claims[p]) <= 2 /\ Len(claims[p]) \in Nat
      BY <1>1 DEF Few, OnCourse, Generating, Writing, FromInventory
<1>3. CASE request[p].force
      BY <1>1, <1>2, <1>3 DEF Track, Unforced
<1>4. CASE ~request[p].force
  <2>1. claims'[p] = Append(claims[p], "variant") /\ \A q \in Creators \ {p} : claims'[q] = claims[q]
        BY <1>1, <1>4 DEF Track, Shape
  <2>2. /\ Len(Append(claims[p], "variant")) = Len(claims[p]) + 1
        /\ Append(claims[p], "variant")[Len(claims[p]) + 1] = "variant"
        BY <1>1
  <2>3. "variant" \in ToSet(Append(claims[p], "variant"))
        BY <1>1, <2>2 DEF ToSet
  <2> QED BY <1>2, <2>1, <2>2, <2>3
<1> QED BY <1>3, <1>4

LEMMA GenerateKeeps ==
    ASSUME JInv, NEW p \in Creators, Transform(p) \/ writeCompletionMarker(p)
    PROVE  Keeps(p)
<1> USE DEF Writing, FromInventory, FromLab, FromCopied, FromCopy, FromRegion, AfterReference
<1>1. /\ IInv /\ Shape /\ Contents /\ Blank /\ Few(p) /\ OnCourse(p) /\ "variant" \in Artifacts /\ "env" \in Artifacts
      BY DEF JInv, IInv, Artifacts
<1>2. pc[p] \in Generating
      BY DEF Transform, writeCompletionMarker, At, Generating
<1>3. request[p].variant /\ owner["variant"] = p
      BY <1>1, <1>2 DEF OnCourse, IInv, Books, Target, Generating
<1>4. CASE TransformFails(p)
  <2>1. /\ pc'[p] = "cleanup" /\ request' = request /\ "cleanup" \in Labels \ FromRegion
        BY <1>1, <1>4 DEF TransformFails, Goto, Shape, Labels
  <2>2. Len(claims'[p]) <= 3 /\ \A q \in Creators \ {p} : claims'[q] = claims[q]
        BY <1>2, <1>4, TrackAdds DEF TransformFails
  <2>3. Few(p)' /\ OnCourse(p)'
        BY <2>1, <2>2 DEF Few, OnCourse
  <2> QED BY <1>4, <2>1, <2>2, <2>3, Passed DEF TransformFails
<1>5. ASSUME NEW next \in {"marker", "inventory"}, NEW part \in {"files", "marker"}, Goto(p, next),
             tree' = [tree EXCEPT !["variant"] = @ \cup {part}], UNCHANGED <<request, owner, doc, points>>,
             \A q \in Creators \ {p} : claims'[q] = claims[q], Few(p)',
             Unforced /\ next = "inventory" => "variant" \in ToSet(claims'[p]),
             next = "marker" <=> part = "files", next = "inventory" => pc[p] = "marker"
      PROVE  Keeps(p)
  <2>1. /\ pc'[p] = next /\ Alone(p)
        BY <1>1, <1>5 DEF Goto, Alone, Shape
  <2>2. OnCourse(p)'
        BY <1>1, <1>2, <1>3, <1>5, <2>1 DEF OnCourse, IsActiveDir, Generating
  <2>3. tree["variant"] \cup {part} \in SUBSET Parts
        BY <1>1, <1>5 DEF Contents, Parts
  <2>4. /\ Contents' /\ Blank' /\ tree'["variant"] = tree["variant"] \cup {part}
        /\ \A b \in Artifacts \ {"variant"} : tree'[b] = tree[b]
        /\ Unforced => owner' = owner /\ Touches(p)
    <3>1. /\ tree' = [tree EXCEPT !["variant"] = tree["variant"] \cup {part}]
          /\ owner' = owner /\ doc' = doc /\ points' = points
          BY <1>5
    <3> QED BY <1>1, <1>3, <2>1, <2>3, <3>1, Written
  <2>5. ASSUME Unforced, Left(p) PROVE Left(p)'
    <3>1. Infrastructure(p)'
          BY <1>1, <1>2, <1>5, <2>1, <2>4, <2>5 DEF Left, Infrastructure, IsActiveDir, LabName, Generating
    <3>2. Configuration(p)'
          BY <1>2, <1>3, <1>5, <2>1, <2>4, <2>5 DEF Left, Configuration, WantsOverlay, Generating
    <3>3. Inventoried(p)'
          BY <1>5, <2>1 DEF Inventoried
    <3> QED BY <3>1, <3>2, <3>3 DEF Left
  <2> QED BY <1>5, <2>1, <2>2, <2>4, <2>5 DEF Keeps, JInv
<1>6. CASE /\ Transform(p) /\ Goto(p, "marker") /\ tree' = [tree EXCEPT !["variant"] = @ \cup {"files"}]
           /\ UNCHANGED <<request, claims, owner, doc, points>>
  <2>1. pc'[p] = "marker"
        BY <1>1, <1>6 DEF Goto, Shape
  <2>2. Few(p)'
        BY <1>1, <1>2, <1>6, <2>1, Stays DEF Generating
  <2> QED BY <1>5, <1>6, <2>2
<1>7. CASE /\ writeCompletionMarker(p) /\ Goto(p, "inventory") /\ claims' = Track(p)
           /\ tree' = [tree EXCEPT !["variant"] = @ \cup {"marker"}]
           /\ UNCHANGED <<request, owner, doc, points>>
  <2>1. /\ Len(claims'[p]) <= 3 /\ (Unforced => "variant" \in ToSet(claims'[p]))
        /\ \A q \in Creators \ {p} : claims'[q] = claims[q]
        BY <1>2, <1>7, TrackAdds
  <2>2. pc'[p] = "inventory" /\ pc[p] = "marker"
        BY <1>1, <1>7 DEF Goto, Shape, writeCompletionMarker, At
  <2>3. Few(p)'
        BY <2>1, <2>2 DEF Few
  <2> QED BY <1>5, <1>7, <2>1, <2>2, <2>3
<1> QED BY <1>4, <1>6, <1>7 DEF Transform, writeCompletionMarker

-----------------------------------------------------------------------------
(* What each rewrite makes of the inventory.                                *)
LEMMA ResetClean ==
    ASSUME NEW d, NEW stale, \A h \in DOMAIN d.hosts : d.hosts[h].addr \in MachineIds => d.hosts[h].addr \in stale
    PROVE  /\ NoMachine(Reset(d, stale))
           /\ DOMAIN Reset(d, stale).hosts = DOMAIN d.hosts /\ Reset(d, stale).groups = d.groups
<1> DEFINE new == Reset(d, stale)
           Line(h) == IF d.hosts[h].addr \notin stale THEN d.hosts[h]
                      ELSE [addr |-> "PENDING", first |-> d.hosts[h].first, conn |-> d.hosts[h].conn, pw |-> d.hosts[h].pw]
<1>1. "PENDING" \notin MachineIds
      BY LabAssumption DEF LabAssumption
<1>2. /\ DOMAIN new.hosts = DOMAIN d.hosts /\ new.groups = d.groups
      /\ \A h \in DOMAIN d.hosts : new.hosts[h] = Line(h)
      BY DEF Reset
<1>3. \A h \in DOMAIN d.hosts : Line(h).addr \notin MachineIds
      BY <1>1
<1> HIDE DEF new, Line
<1>4. NoMachine(new)
      BY <1>2, <1>3 DEF NoMachine
<1> QED BY <1>2, <1>4 DEF new

LEMMA DomainSet ==
    ASSUME NEW p \in Creators, NEW d
    PROVE  LET new == replaceInventoryVariable(d, "domain_name", LabName(p))
           IN  OwnDomain(p, new) /\ new.hosts = d.hosts /\ new.groups = d.groups
BY DEF replaceInventoryVariable, OwnDomain, Over

LEMMA HostsFiltered ==
    ASSUME NEW d, DOMAIN d.hosts \subseteq Hosts
    PROVE  LET new == filterInventoryHosts(d, KnownHosts, LabHosts)
           IN  /\ OwnHosts(new) /\ DOMAIN new.hosts \subseteq DOMAIN d.hosts
               /\ \A h \in DOMAIN new.hosts : new.hosts[h] = d.hosts[h]
               /\ DOMAIN new.groups = DOMAIN d.groups /\ new.vars = d.vars
BY DEF filterInventoryHosts, OwnHosts, Lowered, Only

LEMMA TopologyFit ==
    ASSUME NEW d, DOMAIN d.groups \subseteq Groups
    PROVE  LET new == ensureInventoryTopologyFromSource(d, Canonical, Transport)
           IN  /\ Fit(new) /\ new.hosts = d.hosts /\ DOMAIN new.groups \subseteq Groups
               /\ \A k \in DOMAIN d.vars : k \in DOMAIN new.vars /\ new.vars[k] = d.vars[k]
<1> DEFINE new == ensureInventoryTopologyFromSource(d, Canonical, Transport)
<1>1. IsAD(Canonical) /\ DOMAIN Canonical.groups \subseteq Groups
      BY LabAssumption DEF LabAssumption
<1>2. /\ Contract(new, filterCanonicalTopology(Canonical, d), Canonical, Transport)
      /\ new.hosts = d.hosts
      /\ \A k \in DOMAIN d.vars : k \in DOMAIN new.vars /\ new.vars[k] = d.vars[k]
      BY <1>1, RepairMeetsContract DEF Repaired
<1>3. DOMAIN new.groups = DOMAIN d.groups \cup DOMAIN Canonical.groups
      BY <1>1 DEF ensureInventoryTopologyFromSource, addInventoryTopology, filterCanonicalTopology
<1> HIDE DEF new
<1>4. filterCanonicalTopology(Canonical, new) = filterCanonicalTopology(Canonical, d)
      BY <1>2 DEF filterCanonicalTopology, Deployed
<1>5. Fit(new)
      BY <1>2, <1>4 DEF Fit
<1> QED BY <1>1, <1>2, <1>3, <1>5 DEF new

(* A rewrite of the inventory, and what it must make of it.                 *)
LEMMA Rewritten ==
    ASSUME JInv, NEW p \in Creators, pc[p] \in FromInventory, NEW label \in FromInventory, Goto(p, label),
           UNCHANGED <<request, claims, tree, points>>,
           owner' = owner \/ Made(p, "inventory"),
           DOMAIN doc'.hosts \subseteq Hosts, DOMAIN doc'.groups \subseteq Groups,
           label \in {"repoint", "filter", "topology"} => IsActiveDir(p),
           ASSUME Inventoried(p), IsActiveDir(p)
           PROVE  /\ label \in {"repoint", "filter", "topology", "created"} => NoMachine(doc')
                  /\ label \in {"filter", "topology", "created"} => OwnDomain(p, doc')
                  /\ label \in {"topology", "created"} => OwnHosts(doc')
                  /\ label = "created" => Fit(doc')
    PROVE  Keeps(p)
<1> USE DEF Writing, FromInventory, FromLab, FromCopied, FromCopy, FromRegion, AfterReference
<1>1. /\ IInv /\ Shape /\ Contents /\ Blank /\ Few(p) /\ OnCourse(p) /\ p # None
      /\ {"env", "inventory", "overlay", "variant"} = Artifacts
      BY Nobody DEF JInv, IInv, Artifacts
<1>2. Alone(p) /\ pc'[p] = label
      BY <1>1 DEF Goto, Alone, Shape
<1>3. Few(p)'
      BY <1>1, <1>2, Stays
<1>4. OnCourse(p)'
      BY <1>1, <1>2 DEF OnCourse, IsActiveDir
<1>5. \A a \in Artifacts : owner'[a] = owner[a] \/ (owner[a] = None /\ owner'[a] = p)
      BY <1>1 DEF Shape, Made
<1>6. Contents' /\ Blank'
      BY <1>1, <1>5 DEF Contents, Blank
<1>7. ASSUME Unforced, Left(p) PROVE Touches(p) /\ Left(p)'
  <2>1. owner["env"] = p /\ owner["inventory"] = p
        BY <1>1, <1>7, Owns
  <2>2. Touches(p)
        BY <1>5, <2>1 DEF Touches
  <2>3. Infrastructure(p)'
        BY <1>2, <1>7, <2>1 DEF Left, Infrastructure, IsActiveDir, LabName
  <2>4. Configuration(p)'
        BY <1>2, <1>7 DEF Left, Configuration, WantsOverlay
  <2>5. Inventoried(p)'
    <3>1. ASSUME IsActiveDir(p)
          PROVE  /\ label \in {"repoint", "filter", "topology", "created"} => NoMachine(doc')
                 /\ label \in {"filter", "topology", "created"} => OwnDomain(p, doc')
                 /\ label \in {"topology", "created"} => OwnHosts(doc')
                 /\ label = "created" => Fit(doc')
          BY <1>7, <3>1 DEF Left
    <3>2. NoMachine(doc') = NoMachine(doc)' /\ OwnHosts(doc') = OwnHosts(doc)' /\ Fit(doc') = Fit(doc)'
          OBVIOUS
    <3>3. OwnDomain(p, doc') <=> OwnDomain(p, doc)'
          BY DEF OwnDomain, LabName
    <3>4. IsActiveDir(p)' <=> IsActiveDir(p)
          BY DEF IsActiveDir
    <3> QED BY <1>2, <3>1, <3>2, <3>3, <3>4 DEF Inventoried
  <2> QED BY <2>2, <2>3, <2>4, <2>5 DEF Left
<1> QED BY <1>2, <1>3, <1>4, <1>6, <1>7 DEF Keeps, JInv

LEMMA InventoryKeeps ==
    ASSUME JInv, NEW p \in Creators, scaffoldInventory(p) PROVE Keeps(p)
<1>1. /\ IInv /\ Shape /\ Contents /\ OnCourse(p) /\ pc[p] = "inventory" /\ pc[p] \in FromInventory
      BY DEF JInv, IInv, scaffoldInventory, At, FromInventory
<1>2. CASE Fail(p)
      BY <1>2, FailKeeps DEF Fail
<1>3. CASE ~Fail(p)
  <2> DEFINE reference == request[p].reference
             next == IF ~IsActiveDir(p) THEN "created" ELSE IF LabName(p) # "goad" THEN "repoint" ELSE "filter"
             addresses == {reference.hosts[h].addr : h \in DOMAIN reference.hosts} \ {None}
  <2>1. /\ Made(p, "inventory") /\ Goto(p, next)
        /\ request' = request /\ claims' = claims /\ tree' = tree /\ points' = points
        /\ doc' = IF ~IsActiveDir(p) THEN reference
                  ELSE IF request[p].azure THEN Reset(reference, addresses) ELSE Reset(reference, MachineIds)
        BY <1>3 DEF scaffoldInventory, generateInventory, generateAzureInventory
  <2>2. DOMAIN reference.hosts \subseteq Hosts /\ DOMAIN reference.groups \subseteq Groups
        BY <1>1, RequestsAssumption DEF RequestsAssumption, Shape
  <2>3. None \notin MachineIds
        BY LabAssumption DEF LabAssumption
  <2> HIDE DEF reference
  <2>4. /\ NoMachine(Reset(reference, addresses)) /\ NoMachine(Reset(reference, MachineIds))
        /\ DOMAIN Reset(reference, addresses).hosts = DOMAIN reference.hosts
        /\ DOMAIN Reset(reference, MachineIds).hosts = DOMAIN reference.hosts
        /\ Reset(reference, addresses).groups = reference.groups
        /\ Reset(reference, MachineIds).groups = reference.groups
    <3>1. \A h \in DOMAIN reference.hosts : reference.hosts[h].addr \in MachineIds => reference.hosts[h].addr \in addresses
          BY <2>3
    <3> HIDE DEF addresses
    <3> QED BY <3>1, ResetClean
  <2> HIDE DEF addresses
  <2>5. DOMAIN doc'.hosts \subseteq Hosts /\ DOMAIN doc'.groups \subseteq Groups
        BY <2>1, <2>2, <2>4
  <2>6. IsActiveDir(p) => NoMachine(doc')
        BY <2>1, <2>4
  <2>7. /\ next \in FromInventory /\ next # "topology"
        /\ next = "filter" => OwnDomain(p, doc')
        /\ next \in {"repoint", "filter", "topology"} <=> IsActiveDir(p)
        /\ next = "created" <=> ~IsActiveDir(p)
        BY DEF FromInventory, OwnDomain
  <2> HIDE DEF next
  <2> QED BY <1>1, <2>1, <2>5, <2>6, <2>7, Rewritten
<1> QED BY <1>2, <1>3

(* The three rewrites of the file that follow.                              *)
LEMMA RewriteKeeps ==
    ASSUME JInv, NEW p \in Creators, repointInventoryDomain(p) \/ FilterHosts(p) \/ EnsureTopology(p)
    PROVE  Keeps(p)
<1>1. IInv /\ Shape /\ Contents /\ OnCourse(p) /\ DOMAIN doc.hosts \subseteq Hosts /\ DOMAIN doc.groups \subseteq Groups
      BY DEF JInv, IInv, Contents
<1>2. CASE Fail(p)
      BY <1>2, FailKeeps DEF Fail
<1>3. CASE repointInventoryDomain(p) /\ ~Fail(p)
  <2> DEFINE new == replaceInventoryVariable(doc, "domain_name", LabName(p))
  <2>1. /\ pc[p] = "repoint" /\ Goto(p, "filter") /\ doc' = new
        /\ UNCHANGED <<request, claims, owner, tree, points>>
        BY <1>3 DEF repointInventoryDomain, Rewrite, Repointed, At
  <2>2. OwnDomain(p, new) /\ new.hosts = doc.hosts /\ new.groups = doc.groups
        BY DomainSet
  <2> HIDE DEF new
  <2>3. IsActiveDir(p)
        BY <1>1, <2>1 DEF OnCourse
  <2>4. Inventoried(p) => NoMachine(new)
        BY <2>1, <2>2, <2>3 DEF Inventoried, NoMachine
  <2> QED BY <1>1, <2>1, <2>2, <2>3, <2>4, Rewritten DEF FromInventory
<1>4. CASE FilterHosts(p) /\ ~Fail(p)
  <2> DEFINE new == filterInventoryHosts(doc, KnownHosts, LabHosts)
  <2>1. /\ pc[p] = "filter" /\ Goto(p, "topology") /\ doc' = new
        /\ UNCHANGED <<request, claims, owner, tree, points>>
        BY <1>4 DEF FilterHosts, Rewrite, At
  <2>2. /\ OwnHosts(new) /\ DOMAIN new.hosts \subseteq DOMAIN doc.hosts
        /\ \A h \in DOMAIN new.hosts : new.hosts[h] = doc.hosts[h]
        /\ DOMAIN new.groups = DOMAIN doc.groups /\ new.vars = doc.vars
        BY <1>1, HostsFiltered
  <2> HIDE DEF new
  <2>3. IsActiveDir(p)
        BY <1>1, <2>1 DEF OnCourse
  <2>4. Inventoried(p) => NoMachine(new) /\ OwnDomain(p, new)
        BY <2>1, <2>2, <2>3 DEF Inventoried, NoMachine, OwnDomain
  <2> QED BY <1>1, <2>1, <2>2, <2>3, <2>4, Rewritten DEF FromInventory
<1>5. CASE EnsureTopology(p) /\ ~Fail(p)
  <2> DEFINE new == ensureInventoryTopologyFromSource(doc, Canonical, Transport)
  <2>1. /\ pc[p] = "topology" /\ Goto(p, "created") /\ doc' = new
        /\ UNCHANGED <<request, claims, owner, tree, points>>
        BY <1>5 DEF EnsureTopology, At
  <2>2. /\ Fit(new) /\ new.hosts = doc.hosts /\ DOMAIN new.groups \subseteq Groups
        /\ \A k \in DOMAIN doc.vars : k \in DOMAIN new.vars /\ new.vars[k] = doc.vars[k]
        BY <1>1, TopologyFit
  <2> HIDE DEF new
  <2>3. IsActiveDir(p)
        BY <1>1, <2>1 DEF OnCourse
  <2>4. Inventoried(p) => NoMachine(new) /\ OwnDomain(p, new) /\ OwnHosts(new)
        BY <2>1, <2>2, <2>3 DEF Inventoried, NoMachine, OwnDomain, OwnHosts
  <2> QED BY <1>1, <2>1, <2>2, <2>3, <2>4, Rewritten DEF FromInventory
<1> QED BY <1>2, <1>3, <1>4, <1>5

(* A rollback gives up what it could not empty.                             *)
LEMMA CleanupKeeps ==
    ASSUME JInv, NEW p \in Creators, cleanupFailedScaffold(p) PROVE Keeps(p)
<1> USE DEF Writing, FromInventory, FromLab, FromCopied, FromCopy, FromRegion, AfterReference
<1>1. /\ IInv /\ Shape /\ Contents /\ Blank /\ Few(p) /\ OnCourse(p) /\ p # None
      /\ pc[p] = "cleanup" /\ claims[p] \in Seq(Artifacts) /\ Distinct(p)
      BY Nobody DEF JInv, IInv, Shape, Books, cleanupFailedScaffold, At
<1>2. CASE claims[p] = <<>>
      BY <1>2, FailKeeps DEF cleanupFailedScaffold
<1>3. CASE claims[p] # <<>>
  <2> DEFINE a == Last(claims[p])
  <2>1. a \in Artifacts /\ owner[a] = p
        BY <1>1, <1>3, Released DEF Distinct
  <2>2. Len(Front(claims[p])) = Len(claims[p]) - 1 /\ Len(claims[p]) \in Nat
        BY <1>1, <1>3 DEF Front
  <2>3. /\ RemoveAll(a) \/ Sticks(a)
        /\ Alone(p) /\ claims'[p] = Front(claims[p]) /\ pc' = pc
        BY <1>1, <1>3 DEF cleanupFailedScaffold, Alone, Shape
  <2> HIDE DEF a
  <2>4. /\ owner'[a] = "earlier" \/ (owner'[a] = None /\ tree'[a] = {})
        /\ \A b \in Artifacts \ {a} : owner'[b] = owner[b] /\ tree'[b] = tree[b]
        /\ tree' \in [Artifacts -> SUBSET Parts]
        /\ doc' = doc \/ (a = "inventory" /\ doc' = Empty)
        /\ points' = points \/ (a = "env" /\ points' = None)
    <3>1. CASE RemoveAll(a)
          BY <1>1, <2>1, <3>1 DEF RemoveAll, Shape, Contents
    <3>2. CASE Sticks(a)
          BY <1>1, <2>1, <3>2 DEF Sticks, Shape, Contents
    <3> QED BY <2>3, <3>1, <3>2
  <2>5. DOMAIN Empty.hosts = {} /\ DOMAIN Empty.groups = {}
        BY DEF Empty
  <2>6. Contents'
        BY <1>1, <2>4, <2>5 DEF Contents
  <2>7. Blank'
        BY <1>1, <2>4 DEF Blank, None
  <2>8. Few(p)'
        BY <1>1, <2>2, <2>3 DEF Few
  <2>9. OnCourse(p)'
        BY <1>1, <2>3 DEF OnCourse
  <2>10. Touches(p)
        BY <2>1, <2>4 DEF Touches
  <2>11. ASSUME Left(p) PROVE Left(p)'
    <3>1. Infrastructure(p)'
      <4>1. "env" \in Artifacts /\ request' = request
            BY <2>3 DEF Artifacts, Alone
      <4> QED BY <1>1, <2>1, <2>3, <2>4, <2>11, <4>1, Nobody DEF Left, Infrastructure, IsActiveDir
    <3>2. Configuration(p)' /\ Inventoried(p)'
          BY <1>1, <2>3 DEF Configuration, Inventoried
    <3> QED BY <3>1, <3>2 DEF Left
  <2> QED BY <2>3, <2>6, <2>7, <2>8, <2>9, <2>10, <2>11 DEF Keeps, JInv
<1> QED BY <1>2, <1>3

-----------------------------------------------------------------------------
LEMMA InitJInv == Init => JInv
<1> SUFFICES ASSUME Init PROVE JInv
    OBVIOUS
<1>1. IInv
      BY InitIInv
<1>2. /\ \A p \in Creators : pc[p] = "available" /\ claims[p] = <<>>
      /\ \A a \in Artifacts : tree[a] = {} /\ tree \in [Artifacts -> SUBSET Parts]
      /\ doc = Empty /\ points = None /\ Len(<<>>) = 0
      BY DEF Init
<1>3. Contents /\ Blank
      BY <1>2 DEF Contents, Blank, Empty, Init
<1>4. ASSUME NEW p \in Creators PROVE Few(p) /\ OnCourse(p) /\ Left(p)
  <2> USE DEF Writing, FromInventory, FromLab, FromCopied, FromCopy, FromRegion, AfterReference
  <2>1. Len(claims[p]) = 0
        BY <1>2
  <2>2. Few(p) /\ OnCourse(p)
        BY <1>2, <2>1 DEF Few, OnCourse
  <2>3. owner["env"] # p
        BY Nobody DEF Init, Artifacts
  <2>4. Left(p)
        BY <1>2, <2>3 DEF Left, Infrastructure, Configuration, Inventoried
  <2> QED BY <2>2, <2>4
<1> QED BY <1>1, <1>3, <1>4 DEF JInv

LEMMA StepKeeps ==
    ASSUME JInv, NEW p \in Creators, Step(p) \/ Crash(p) PROVE JInv'
<1>1. Keeps(p)
  <2>1. CASE Crash(p)
        BY <2>1, FailKeeps DEF Crash
  <2> QED BY <2>1, AvailableKeeps, ReferenceKeeps, ReserveKeeps, WriteKeeps, RepointKeeps, ConfigKeeps,
             TargetKeeps, GenerateKeeps, InventoryKeeps, RewriteKeeps, CleanupKeeps DEF Step
<1>2. IInv'
      BY StepIInv, CrashIInv DEF JInv
<1>3. ASSUME NEW q \in Creators PROVE Few(q)' /\ OnCourse(q)'
  <2>1. CASE q = p
        BY <1>1, <2>1 DEF Keeps
  <2>2. CASE q # p
    <3>1. Few(q) /\ OnCourse(q) /\ pc'[q] = pc[q] /\ claims'[q] = claims[q] /\ request' = request
          BY <1>1, <2>2 DEF JInv, Keeps, Alone
    <3> QED BY <3>1 DEF Few, OnCourse, IsActiveDir
  <2> QED BY <2>1, <2>2
<1>4. ASSUME Unforced', NEW q \in Creators PROVE Left(q)'
  <2>1. Unforced
        BY <1>1, <1>4 DEF Unforced, Keeps, Alone
  <2>2. CASE q = p
        BY <1>1, <2>1, <2>2 DEF Keeps
  <2>3. CASE q # p
        BY <1>1, <2>1, <2>3, Others DEF Keeps
  <2> QED BY <2>2, <2>3
<1> QED BY <1>1, <1>2, <1>3, <1>4 DEF JInv, Keeps

(* For any number of invocations that race for a name without --force, any  *)
(* lab and any reference: what the winner leaves is whole and its own, and  *)
(* its inventory fit for provisioning.                                      *)
THEOREM WinnerLeavesItWhole == Spec => []WinnerIsWhole
<1>1. JInv /\ [Next]_vars => JInv'
  <2>1. ASSUME JInv, UNCHANGED vars PROVE JInv'
    <3>1. IInv'
          BY <2>1 DEF vars, JInv, IInv, Shape, Books, Distinct, Unclaimed, Held, Target, Accounted, WantsOverlay
    <3> QED BY <2>1, <3>1 DEF vars, JInv, Contents, Blank, Few, OnCourse, Unforced, Left, Infrastructure,
               Configuration, Inventoried, IsActiveDir, WantsOverlay, LabName, OwnDomain
  <2>2. ASSUME JInv, Next PROVE JInv'
        BY <2>1, <2>2, StepKeeps DEF Next, Done
  <2> QED BY <2>1, <2>2
<1>2. JInv => WinnerIsWhole
  <2> SUFFICES ASSUME JInv PROVE WinnerIsWhole
      OBVIOUS
  <2>1. TypeOK
    <3>1. ASSUME NEW p \in Creators PROVE ToSet(claims[p]) \subseteq Artifacts /\ Len(claims[p]) <= 3
      <4>1. claims[p] \in Seq(Artifacts) /\ Few(p)
            BY DEF JInv, IInv, Shape
      <4> QED BY <4>1 DEF ToSet, Few
    <3> QED BY <3>1 DEF TypeOK, JInv, IInv, Shape, Contents
  <2>2. ASSUME NEW p \in Creators, pc[p] = "created", Unforced
        PROVE  /\ \A a \in Products(p) : owner[a] = p
               /\ {"env.hcl", "region.hcl"} \subseteq tree["env"]
               /\ IsActiveDir(p) => tree["env"] \cap TemplateHosts = LabHosts
               /\ points = LabName(p)
               /\ WantsOverlay(p) => tree["overlay"] # {}
               /\ request[p].variant => IsComplete
               /\ Listed /\ (request[p].plan = "goad" => hasConfig)
    <3> USE DEF Writing, FromInventory, FromLab, FromCopied, FromCopy, FromRegion, AfterReference
    <3>1. /\ owner["env"] = p /\ owner["inventory"] = p /\ (WantsOverlay(p) => owner["overlay"] = p)
          /\ \A a \in ToSet(claims[p]) : owner[a] = p
          BY <2>2, Owns DEF JInv
    <3>2. Infrastructure(p) /\ Configuration(p) /\ OnCourse(p)
          BY <2>2 DEF JInv, Left
    <3>3. \A a \in Products(p) : owner[a] = p
          BY <2>2, <3>1, <3>2 DEF Products, Configuration
    <3>4. IsActiveDir(p) => tree["env"] \cap TemplateHosts = LabHosts
          BY <2>2, <3>1, <3>2 DEF Infrastructure, OnCourse
    <3>5. /\ {"env.hcl", "region.hcl"} \subseteq tree["env"] /\ points = LabName(p) /\ Listed
          BY <2>2, <3>2 DEF Infrastructure, Listed
    <3>6. /\ WantsOverlay(p) => tree["overlay"] # {}
          /\ request[p].variant => IsComplete
          /\ request[p].plan = "goad" => hasConfig
          BY <2>2, <3>2 DEF Configuration, IsComplete, hasConfig, WantsOverlay
    <3> QED BY <3>3, <3>4, <3>5, <3>6
  <2>3. ASSUME NEW p \in Creators, pc[p] = "created", IsActiveDir(p), Unforced
        PROVE  NoMachine(doc) /\ OwnDomain(p, doc) /\ OwnHosts(doc) /\ Fit(doc)
        BY <2>3 DEF JInv, Left, Inventoried
  <2> QED BY <2>1, <2>2, <2>3 DEF WinnerIsWhole, EnvironmentIsWhole, InventoryIsFit, NoMachine, OwnDomain, OwnHosts, Fit
<1> QED BY <1>1, <1>2, InitJInv, PTL DEF Spec
=============================================================================
