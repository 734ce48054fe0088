------------------------------ MODULE Variant ------------------------------
(***************************************************************************)
(* The variant generator (src/cli/internal/variant): from a lab directory  *)
(* it makes a copy in which every entity has another name.  One generation *)
(* draws new names, turns the mappings into one table of replacements,     *)
(* longest first, rewrites every file with it, repairs the configuration,  *)
(* validates the copy and only then writes the completion marker.  Any     *)
(* write may fail and the process may die anywhere; a later run of the     *)
(* provisioning finds what an earlier one left (cmd/provision.go).         *)
(*                                                                         *)
(* A text is a sequence of atoms <<word, case>>, case one of "lower",      *)
(* "Cap", "UPPER" or "sep" for a separator.  Replacement, word boundaries  *)
(* and lengths are those of the code, on atoms instead of bytes.           *)
(***************************************************************************)
EXTENDS Integers, Sequences, FiniteSets, TLC, SequencesExt

CONSTANTS Labs,          \* source directories a generation may start from
          Pool,          \* category of names |-> the names a draw may give
          PasswordPool,  \* random passwords, unlike any other text
          OriginalNames, \* the names the validation looks for
          Tree           \* the target directory's base name, a text

VARIABLES
  lab,      \* the source
  pc,       \* the step of the present generation
  todo,     \* entities the present mapping step, or files the copy, has left
  gen,      \* the generator: its mappings and the names it has used
  table,    \* the ordered replacements
  present,  \* the target directory exists
  target,   \* its files: path |-> content
  marker,   \* the completion marker is in the target
  handed    \* provisioning went on with the target
vars == <<lab, pc, todo, gen, table, present, target, marker, handed>>

----------------------------------------------------------------------------
(* Texts.                                                                  *)

IsWord(a) == a[2] # "sep"
Cased(t, c) == [i \in DOMAIN t |-> IF IsWord(t[i]) THEN <<t[i][1], c>> ELSE t[i]]
Lower(t) == Cased(t, "lower")
Upper(t) == Cased(t, "UPPER")
capitalize(t) == IF t = <<>> THEN t ELSE Cased(SubSeq(t, 1, 1), "Cap") \o Lower(Tail(t))
Sep(c) == <<<<c, "sep">>>>
Chars(t) == FoldLeft(LAMBDA n, a : n + Len(a[1]), 0, t)
Has(t, c) == \E i \in DOMAIN t : t[i] = <<c, "sep">>

\* strings.Split(t, c)[0] and the rest, at the first separator c
Before(t, c) == IF Has(t, c) THEN SubSeq(t, 1, SelectInSeq(t, LAMBDA a : a = <<c, "sep">>) - 1)
                             ELSE t
After(t, c) == IF Has(t, c)
               THEN SubSeq(t, SelectInSeq(t, LAMBDA a : a = <<c, "sep">>) + 1, Len(t)) ELSE t
AfterLast(t, c) == SubSeq(t, SelectLastInSeq(t, LAMBDA a : a = <<c, "sep">>) + 1, Len(t))

\* \b before the i-th atom, with "_" a separator
\* mutant: "_" is a letter, as in Go's \b
BoundaryOfGo(t, i) ==
  LET Letter(a) == IsWord(a) \/ a[1] = "_" IN
  (i > 1 /\ Letter(t[i - 1])) # (i <= Len(t) /\ Letter(t[i]))
Boundary(t, i) == (i > 1 /\ IsWord(t[i - 1])) # (i <= Len(t) /\ IsWord(t[i]))
Occurs(t, old, i, wb) ==
  LET last == i + Len(old) - 1 IN
  /\ old # <<>> /\ last <= Len(t) /\ SubSeq(t, i, last) = old
  /\ wb => Boundary(t, i) /\ Boundary(t, last + 1)

RECURSIVE ReplaceFrom(_, _, _)
ReplaceFrom(t, i, r) ==
  IF i > Len(t) THEN <<>>
  ELSE IF Occurs(t, r.old, i, r.wb) THEN r.new \o ReplaceFrom(t, i + Len(r.old), r)
  ELSE <<t[i]>> \o ReplaceFrom(t, i + 1, r)

ReplaceIn(t, r) ==
  IF r.old # r.new /\ \E k \in DOMAIN t : t[k] = r.old[1] THEN ReplaceFrom(t, 1, r) ELSE t
applyReplacements(text) ==
  LET after[n \in 0..Len(table)] ==
        IF n = 0 THEN text ELSE LET t == after[n - 1] IN ReplaceIn(t, table[n])
  IN  after[Len(table)]

----------------------------------------------------------------------------
(* Drawing names.                                                          *)

Counted(name, n) == name \o <<<<ToString(n), "lower">>>>
\* mutant: a used name is given out again
ensureNothing(name, used) == name
ensureUnique(name, used) ==
  IF Lower(name) \notin used THEN name
  ELSE Counted(name, CHOOSE n \in 2..(Cardinality(used) + 2) :
                       /\ Lower(Counted(name, n)) \notin used
                       /\ \A k \in 2..(n - 1) : Lower(Counted(name, k)) \in used)

\* GenerateUsername: firstname.lastname, a fresh pair while there is one
Usernames(used) ==
  LET all == {Lower(f) \o Sep(".") \o Lower(l) : f \in Pool.first, l \in Pool.last}
      free == {u \in all : u \notin used}
  IN  IF free # {} THEN free ELSE {ensureUnique(u, used) : u \in all}

\* GeneratePassword: as long as the old one and as good as unique
GeneratePassword(taken) == CHOOSE p \in PasswordPool : p \notin taken

hostnameAliases == <<[host |-> <<<<"braavos", "lower">>>>, alias |-> <<<<"bravos", "Cap">>>>]>>
preservedUsers == {<<<<"sql_svc", "lower">>>>}
builtins == {<<<<"domain admins", "Cap">>>>}
rootDomain == <<<<"sevenkingdoms", "lower">>, <<".", "sep">>, <<"local", "lower">>>>
childDomain == <<<<"north", "lower">>, <<".", "sep">>>> \o rootDomain
externalDomain == <<<<"essos", "lower">>, <<".", "sep">>, <<"local", "lower">>>>

Empty == [x \in {} |-> x]
NewGenerator ==
  [Domains |-> Empty, NetBIOS |-> Empty, Hosts |-> Empty, Users |-> Empty, Groups |-> Empty,
   OUs |-> Empty, Passwords |-> Empty, Misc |-> Empty, used |-> {}, nameComponents |-> {},
   userPasswordMap |-> Empty]

Get(f, k, default) == IF k \in DOMAIN f THEN f[k] ELSE default

----------------------------------------------------------------------------
(* The entities of the source, in the order of the mapping steps.          *)

DomainUsers == UNION {ToSet(d.users) : d \in ToSet(lab.domains)}
Groups == UNION {ToSet(d.groups) : d \in ToSet(lab.domains)}
HostPasswords == UNION {{h.remotePassword} : h \in ToSet(lab.hosts)}

Entities(step) ==
  CASE step = "hosts" -> ToSet(lab.hosts)
    [] step = "users" -> DomainUsers
    [] step = "groups" -> {g.name : g \in Groups}
    [] step = "ous" -> UNION {d.ous : d \in ToSet(lab.domains)}
    [] step = "passwords" -> ({u.password : u \in DomainUsers} \union HostPasswords) \ {<<>>}
    [] step = "gmsa" -> UNION {d.gmsa : d \in ToSet(lab.domains)}
    [] step = "cities" -> {u.city : u \in DomainUsers} \ {<<>>}
    [] step = "shares" -> UNION {h.shares : h \in ToSet(lab.hosts)}

Steps == <<"hosts", "users", "groups", "ous", "passwords", "gmsa", "cities", "shares">>
StepSet == ToSet(Steps)
Following(step) ==
  LET i == CHOOSE n \in DOMAIN Steps : Steps[n] = step
  IN  IF i = Len(Steps) THEN "reconcile" ELSE Steps[i + 1]

----------------------------------------------------------------------------
Init ==
  /\ lab \in Labs
  /\ pc = "ensure" /\ todo = {} /\ gen = NewGenerator
  /\ table = <<>>
  /\ present = FALSE /\ target = Empty /\ marker = FALSE
  /\ handed = FALSE

Ended(failed) ==
  /\ pc' = failed /\ todo' = {} /\ gen' = NewGenerator /\ table' = <<>>

IsComplete == marker

\* mutant: an existing directory is good enough
ensureExisting ==
  /\ pc = "ensure"
  /\ IF present
     THEN /\ handed' = TRUE /\ Ended("over")
          /\ UNCHANGED <<lab, present, target, marker>>
     ELSE /\ IF lab.kind # "active-directory" THEN Ended("failed")
             ELSE /\ pc' = "domains" /\ UNCHANGED <<todo, gen, table>>
          /\ UNCHANGED <<lab, present, target, marker, handed>>
\* Provisioning looks at the target first: a complete one is used as it is,
\* one without its marker stops the run, and only a missing one is generated.
\* ValidateSource refuses a range of another kind before anything is drawn.
ensureVariant ==
  /\ pc = "ensure"
  /\ IF present
     THEN /\ handed' = IsComplete
          /\ Ended(IF IsComplete THEN "over" ELSE "failed")
          /\ UNCHANGED <<lab, present, target, marker>>
     ELSE /\ IF lab.kind # "active-directory" THEN Ended("failed")
             ELSE /\ pc' = "domains" /\ UNCHANGED <<todo, gen, table>>
          /\ UNCHANGED <<lab, present, target, marker, handed>>

Mapping(g, next, left) ==
  /\ gen' = g /\ pc' = next /\ todo' = left
  /\ UNCHANGED <<lab, table, present, target, marker, handed>>

\* The three domains are written into the generator, whatever the lab's are.
mapDomains ==
  /\ pc = "domains"
  /\ \E r \in Pool.domain, s \in Pool.subdomain, e \in Pool.domain :
       LET root == ensureUnique(r, {})
           child == ensureUnique(s, {root})
           ext == ensureUnique(e, {root, child})
           local == Sep(".") \o <<<<"local", "lower">>>>
           new == [root |-> root \o local, child |-> child \o Sep(".") \o root \o local,
                   ext |-> ext \o local]
           Variants(old, n) == (Upper(old) :> Upper(n)) @@ (Lower(old) :> Lower(n))
                                 @@ (capitalize(old) :> capitalize(n))
       IN  Mapping([gen EXCEPT
                     !.Domains = (rootDomain :> new.root) @@ (childDomain :> new.child)
                                   @@ (externalDomain :> new.ext),
                     !.NetBIOS = Variants(Before(rootDomain, "."), root)
                                   @@ Variants(Before(childDomain, "."), child)
                                   @@ Variants(Before(externalDomain, "."), ext),
                     !.used = {root, child, ext}],
                   "hosts", Entities("hosts"))

mapHosts ==
  /\ pc = "hosts"
  /\ \E h \in todo, draw \in Pool.host :
       LET new == ensureUnique(draw, gen.used)
           domain == Get(gen.Domains, h.domain, <<>>)
           alias == {a \in ToSet(hostnameAliases) : a.host = h.hostname}
           misc == (h.hostname \o Sep("$") :> new \o Sep("$")) @@ (Upper(h.hostname) :> Upper(new))
                     @@ (capitalize(h.hostname) :> capitalize(new))
       IN  Mapping([gen EXCEPT
                     !.Hosts = (h.id :> [old |-> h.hostname, new |-> new,
                                         oldFQDN |-> h.hostname \o Sep(".") \o h.domain,
                                         newFQDN |-> new \o Sep(".") \o domain]) @@ @,
                     !.Misc = [x \in {a.alias : a \in alias} |-> capitalize(new)] @@ misc @@ @,
                     !.used = @ \union {Lower(new)}],
                   "hosts", todo \ {h})

\* setNameComponent: the name and its other case, each only if Misc has no entry
SetOne(g, old, new) ==
  IF old \in DOMAIN g.Misc THEN g
  ELSE [g EXCEPT !.Misc = (old :> new) @@ @, !.nameComponents = @ \union {old}]
setNameComponent(g, old, new) ==
  IF old = Lower(old) THEN SetOne(SetOne(g, old, new), capitalize(old), capitalize(new))
                      ELSE SetOne(SetOne(g, old, new), Lower(old), Lower(new))

mapUserNameComponents(g, u, new) ==
  LET first == IF u.first \in {<<>>, <<<<"sql", "lower">>>>} THEN g
               ELSE setNameComponent(g, u.first, Before(new, "."))
  IN  IF u.surname = <<>> THEN first ELSE setNameComponent(first, u.surname, After(new, "."))

mapUsers ==
  /\ pc = "users"
  /\ \E u \in todo :
       IF u.name \in preservedUsers
       THEN Mapping([gen EXCEPT !.Users = (u.name :> u.name) @@ @], "users", todo \ {u})
       ELSE \E draw \in Usernames(gen.used) :
              LET drawn == gen.used \union {draw}
                  new == IF Has(u.name, ".") THEN draw ELSE ensureUnique(Before(draw, "."), drawn)
              IN  Mapping(mapUserNameComponents(
                            [gen EXCEPT !.Users = (u.name :> new) @@ @,
                                        !.used = drawn \union {new}], u, new),
                          "users", todo \ {u})

mapGroups ==
  /\ pc = "groups"
  /\ \E name \in todo, draw \in Pool.group :
       LET new == ensureUnique(draw, gen.used)
       IN  Mapping(IF name \in builtins THEN [gen EXCEPT !.Groups = (name :> name) @@ @]
                   ELSE [gen EXCEPT !.Groups = (name :> new) @@ @,
                                    !.used = @ \union {Lower(new)}],
                   "groups", todo \ {name})

mapOUs ==
  /\ pc = "ous"
  /\ \E name \in todo, draw \in Pool.ou :
       LET new == ensureUnique(draw, gen.used)
       IN  Mapping([gen EXCEPT !.OUs = (name :> new) @@ @, !.used = @ \union {Lower(new)}],
                   "ous", todo \ {name})

\* Random passwords are alike: the order the old ones come in does not matter.
mapPasswords ==
  /\ pc = "passwords" /\ todo # {}
  /\ LET pw == CHOOSE p \in todo : TRUE IN
       Mapping([gen EXCEPT !.Passwords = (pw :> GeneratePassword(Range(@))) @@ @],
               "passwords", todo \ {pw})

\* buildUserPasswordMap: two users mapped to one name leave one of their passwords
UserPasswordMaps ==
  LET Keyed == {u \in DomainUsers : u.password # <<>>}
      New(u) == Get(gen.Users, u.name, u.name)
      Of(k) == {gen.Passwords[u.password] : u \in {v \in Keyed : New(v) = k}}
      keys == {New(u) : u \in Keyed}
  IN  {f \in [keys -> Range(gen.Passwords)] : \A k \in keys : f[k] \in Of(k)}

mapGMSAAccounts ==
  /\ pc = "gmsa"
  /\ \E name \in todo, draw \in Pool.gmsa :
       LET new == ensureUnique(draw, gen.used)
       IN  Mapping([gen EXCEPT !.Misc = (name :> new) @@ (name \o Sep("$") :> new \o Sep("$")) @@ @,
                               !.used = @ \union {Lower(new)}],
                   "gmsa", todo \ {name})

\* mapCities and mapShares overwrite whatever Misc holds under the same text.
MiscStep(step, pool) ==
  /\ pc = step
  /\ \E name \in todo, draw \in pool :
       LET new == ensureUnique(draw, gen.used)
       IN  Mapping([gen EXCEPT !.Misc = (name :> new) @@ @, !.used = @ \union {Lower(new)}],
                   step, todo \ {name})
mapCities == MiscStep("cities", Pool.city)
mapShares == MiscStep("shares", Pool.share)

\* The loop of a step ends with its entities.
NextStep ==
  /\ pc \in StepSet /\ todo = {}
  /\ \E upm \in (IF pc = "passwords" THEN UserPasswordMaps ELSE {gen.userPasswordMap}) :
       Mapping([gen EXCEPT !.userPasswordMap = upm], Following(pc),
               IF Following(pc) = "reconcile" THEN {} ELSE Entities(Following(pc)))

\* A name component that is also a group gives way to the group.
reconcile(g) ==
  LET both == DOMAIN g.Groups \intersect g.nameComponents IN
  [g EXCEPT !.Misc = Restrict(@, DOMAIN @ \ both), !.nameComponents = @ \ both]
generateMappings ==
  /\ pc = "reconcile"
  /\ Mapping(reconcile(gen), "build", {})

----------------------------------------------------------------------------
(* The table of replacements.                                              *)

Entry(old, new) ==
  [old |-> old, new |-> new, chars |-> Chars(old),
   wb |-> old \notin DOMAIN gen.Groups /\ old \in gen.nameComponents]
EntriesOf(f) == {Entry(k, f[k]) : k \in DOMAIN f}

HostReplacements ==
  UNION {{Entry(h.oldFQDN, h.newFQDN), Entry(h.old, h.new)} : h \in Range(gen.Hosts)}

Escaped == Sep("\\\\")   \* the two characters JSON writes for one backslash
QualifiedUserReplacements ==
  UNION {LET nb == Upper(Before(d, "."))
             newNB == Get(gen.NetBIOS, nb, Upper(Before(gen.Domains[d], ".")))
         IN  {Entry(nb \o Escaped \o u, newNB \o Escaped \o gen.Users[u]),
              Entry(d \o Escaped \o u, gen.Domains[d] \o Escaped \o gen.Users[u])}
         : d \in DOMAIN gen.Domains, u \in DOMAIN gen.Users}

\* DC=a,DC=b,DC=local
RECURSIVE DN(_)
DN(domain) ==
  LET part == <<<<"dc", "UPPER">>, <<"=", "sep">>>> \o Before(domain, ".") IN
  IF Has(domain, ".") THEN part \o Sep(",") \o DN(After(domain, ".")) ELSE part
DNReplacements == {Entry(DN(d), DN(gen.Domains[d])) : d \in DOMAIN gen.Domains}

\* sort.Slice by length is not stable and the maps it sorts have no order, so
\* entries of one length may come in any order.  Two entries of which neither
\* can make or break an occurrence of the other give the same text either way:
\* only the others are permuted.
Follows(x, y) == \E n \in 1..Len(x) : n <= Len(y) /\ SubSeq(x, Len(x) - n + 1, Len(x)) = SubSeq(y, 1, n)
Touch(x, y) ==
  \/ Follows(x, y) \/ Follows(y, x)
  \/ \E i \in DOMAIN x : Occurs(x, y, i, FALSE)
  \/ \E i \in DOMAIN y : Occurs(y, x, i, FALSE)
Interfere(a, b) ==
  /\ a # b /\ a.old # a.new /\ b.old # b.new
  /\ Touch(a.old, b.old) \/ Touch(a.new, b.old) \/ Touch(b.new, a.old)
Listed(set) == FoldSet(LAMBDA x, seq : Append(seq, x), <<>>, set)
Orders(class) ==
  LET tied == {r \in class : \E q \in class : Interfere(r, q)} IN
  {Listed(class \ tied) \o order : order \in SetToSeqs(tied)}

LongestFirst(lengths) == SortSeq(Listed(lengths), LAMBDA m, n : m > n)
Sorted(rs) ==
  FoldLeft(LAMBDA tables, n :
             {t \o o : t \in tables, o \in Orders({r \in rs : r.chars = n})},
           {<<>>}, LongestFirst({r.chars : r \in rs}))

buildOrderedReplacements ==
  /\ pc = "build"
  /\ table' \in Sorted(HostReplacements \union QualifiedUserReplacements \union DNReplacements
                         \union UNION {EntriesOf(f) : f \in {gen.Domains, gen.Users, gen.Groups,
                                           gen.OUs, gen.Passwords, gen.NetBIOS, gen.Misc}})
  /\ pc' = "create"
  /\ UNCHANGED <<lab, todo, gen, present, target, marker, handed>>

----------------------------------------------------------------------------
(* The copy.                                                               *)

Creating(ok) ==
  /\ pc = "create"
  /\ IF ok THEN /\ present' = TRUE /\ pc' = "copy" /\ todo' = lab.files
                /\ UNCHANGED <<gen, table>>
           ELSE Ended("failed") /\ UNCHANGED present
  /\ UNCHANGED <<lab, target, marker, handed>>
\* createFreshTarget: Mkdir alone decides who owns the directory
createFreshTarget == (~present /\ Creating(TRUE)) \/ Creating(FALSE)

RewriteUser(u) ==
  [name |-> applyReplacements(u.name), first |-> applyReplacements(u.first),
   surname |-> applyReplacements(u.surname), password |-> applyReplacements(u.password),
   city |-> applyReplacements(u.city),
   groups |-> [i \in DOMAIN u.groups |-> applyReplacements(u.groups[i])]]

\* A JSON object that has a key twice keeps the last value.
KeepLast(s, Key(_)) ==
  LET keep == {i \in DOMAIN s : \A j \in DOMAIN s : Key(s[j]) = Key(s[i]) => j <= i}
  IN  FoldLeftDomain(LAMBDA acc, i : IF i \in keep THEN Append(acc, s[i]) ELSE acc, <<>>, s)

fixUserFirstnameSurname(u) ==
  IF u.name \in preservedUsers \/ ~Has(u.name, ".") THEN u
  ELSE [u EXCEPT !.first = Before(u.name, "."), !.surname = After(u.name, ".")]

fixPasswords(u) == [u EXCEPT !.password = Get(gen.userPasswordMap, u.name, @)]

\* simplifyEntity: behind the backslash, before the comma, in lower case, without cn=
simplifyEntity(t) ==
  LET plain == Before(Lower(AfterLast(t, "\\\\")), ",")
  IN  IF Has(plain, "=") THEN After(plain, "=") ELSE plain

\* GenericAll_arya_stark has three parts, and the last two are made anew.
rebuildACLKeys(a) ==
  LET rest == After(a.key, "_") IN
  IF Has(a.key, "_") /\ Has(rest, "_")
  THEN [a EXCEPT !.key = Before(@, "_") \o Sep("_") \o simplifyEntity(a.for)
                           \o Sep("_") \o simplifyEntity(a.to)]
  ELSE a

rebuildShareKeys(shares) == {Get(gen.Misc, s, s) : s \in shares}

RewriteDomain(d) ==
  LET users == KeepLast([i \in DOMAIN d.users |-> RewriteUser(d.users[i])], LAMBDA u : u.name)
      acls == KeepLast([i \in DOMAIN d.acls |->
                          [key |-> applyReplacements(d.acls[i].key),
                           for |-> applyReplacements(d.acls[i].for),
                           to |-> applyReplacements(d.acls[i].to)]], LAMBDA a : a.key)
      groups == [i \in DOMAIN d.groups |->
                   [name |-> applyReplacements(d.groups[i].name),
                    members |-> [k \in DOMAIN d.groups[i].members |->
                                   applyReplacements(d.groups[i].members[k])]]]
  IN  [name |-> applyReplacements(d.name),
       users |-> [i \in DOMAIN users |-> fixPasswords(fixUserFirstnameSurname(users[i]))],
       groups |-> KeepLast(groups, LAMBDA g : g.name),
       ous |-> {applyReplacements(o) : o \in d.ous},
       gmsa |-> {applyReplacements(n) : n \in d.gmsa},
       acls |-> KeepLast([i \in DOMAIN acls |-> rebuildACLKeys(acls[i])], LAMBDA a : a.key)]

RewriteHost(h) ==
  [id |-> applyReplacements(h.id), hostname |-> applyReplacements(h.hostname),
   domain |-> applyReplacements(h.domain), login |-> applyReplacements(h.login),
   source |-> applyReplacements(h.source),
   remotePassword |-> applyReplacements(h.remotePassword),
   shares |-> rebuildShareKeys({applyReplacements(s) : s \in h.shares})]

transformConfigJSON ==
  [hosts |-> KeepLast([i \in DOMAIN lab.hosts |-> RewriteHost(lab.hosts[i])], LAMBDA h : h.id),
   domains |-> KeepLast([i \in DOMAIN lab.domains |-> RewriteDomain(lab.domains[i])],
                        LAMBDA d : d.name)]

\* fixSecureStrings: a blob whose password is mapped is encrypted anew
fixSecureStrings(pw) == Get(gen.Passwords, pw, pw)

Transformed(f) ==
  [kind |-> f.kind,
   lines |-> IF f.kind = "binary" THEN f.lines
             ELSE [i \in DOMAIN f.lines |-> applyReplacements(f.lines[i])],
   secret |-> IF f.kind = "script" THEN fixSecureStrings(f.secret) ELSE f.secret,
   tree |-> IF f.kind = "inventory" THEN Tree ELSE <<>>,
   config |-> IF f.kind = "config" THEN transformConfigJSON ELSE "none"]

\* transformFile: a path is renamed like a text, and a second file of one name
\* replaces the first.  A file that cannot be written ends the walk.
Copying(f, ok) ==
  /\ pc = "copy" /\ f \in todo
  /\ IF ok THEN /\ target' = (applyReplacements(f.path) :> Transformed(f)) @@ target
                /\ todo' = todo \ {f} /\ pc' = (IF todo = {f} THEN "save" ELSE "copy")
                /\ UNCHANGED <<gen, table>>
           ELSE Ended("failed") /\ UNCHANGED target
  /\ UNCHANGED <<lab, present, marker, handed>>
\* WalkDir is lexical: the files come in one order
NextFile == CHOOSE f \in todo : \A g \in todo : f.order <= g.order
copyAndTransform == todo # {} /\ (Copying(NextFile, TRUE) \/ Copying(NextFile, FALSE))

Writing(step, next) ==
  /\ pc = step
  /\ \/ pc' = next /\ UNCHANGED <<todo, gen, table>>
     \/ Ended("failed")
  /\ UNCHANGED <<lab, present, target, marker, handed>>

saveMappings == Writing("save", "validate")
createDocumentation == Writing("document", "mark")

ConfigTexts(c) ==
  UNION ({{d.name} \union {u.name : u \in ToSet(d.users)} \union {u.first : u \in ToSet(d.users)}
            \union {u.surname : u \in ToSet(d.users)} \union {u.city : u \in ToSet(d.users)}
            \union {u.password : u \in ToSet(d.users)} \union d.ous \union d.gmsa
            \union {g.name : g \in ToSet(d.groups)}
            \union UNION {ToSet(g.members) : g \in ToSet(d.groups)}
            \union {a.key : a \in ToSet(d.acls)} \union {a.for : a \in ToSet(d.acls)}
            \union {a.to : a \in ToSet(d.acls)} : d \in ToSet(c.domains)}
         \union {{h.hostname, h.domain, h.login, h.source, h.remotePassword} \union h.shares
                   : h \in ToSet(c.hosts)})
TextsOf(file) ==
  IF file.kind = "binary" THEN {}
  ELSE ToSet(file.lines) \union (IF file.kind = "config" THEN ConfigTexts(file.config) ELSE {})

\* The check's \b takes "_" for a letter, which the replacement does not.
Standing(t, name, i) ==
  /\ Occurs(t, name, i, TRUE)
  /\ (i > 1) => t[i - 1] # <<"_", "sep">>
  /\ (i + Len(name) <= Len(t)) => t[i + Len(name)] # <<"_", "sep">>
findNameViolations ==
  {<<p, n>> \in (DOMAIN target) \X OriginalNames :
     \E t \in TextsOf(target[p]) : \E i \in DOMAIN t : Standing(Lower(t), n, i)}
ConfigFiles == {p \in DOMAIN target : target[p].kind = "config"}
validateStructureCounts ==
  \E p \in ConfigFiles :
    /\ Len(target[p].config.hosts) = Len(lab.hosts)
    /\ Len(target[p].config.domains) = Len(lab.domains)

validate ==
  /\ pc = "validate"
  /\ IF findNameViolations = {} /\ validateStructureCounts
     THEN pc' = "document" /\ UNCHANGED <<todo, gen, table>>
     ELSE Ended("failed")
  /\ UNCHANGED <<lab, present, target, marker, handed>>

\* Run ends: the marker is renamed into place, and provisioning goes on.
writeCompletionMarker ==
  /\ pc = "mark"
  /\ \/ marker' = TRUE /\ handed' = TRUE /\ pc' = "over" /\ UNCHANGED <<todo, gen, table>>
     \/ Ended("failed") /\ UNCHANGED <<marker, handed>>
  /\ UNCHANGED <<lab, present, target>>

Crash ==
  /\ pc \notin {"over", "failed"} /\ Ended("failed")
  /\ UNCHANGED <<lab, present, target, marker, handed>>

\* The operator runs provisioning again.
Rerun ==
  /\ pc = "failed" /\ Ended("ensure")
  /\ UNCHANGED <<lab, present, target, marker, handed>>

Generation ==
  \/ ensureVariant \/ mapDomains \/ mapHosts \/ mapUsers \/ mapGroups \/ mapOUs \/ mapPasswords
  \/ mapGMSAAccounts \/ mapCities \/ mapShares \/ NextStep \/ generateMappings
  \/ buildOrderedReplacements \/ createFreshTarget \/ copyAndTransform
  \/ saveMappings \/ validate \/ createDocumentation \/ writeCompletionMarker

Next == Generation \/ Crash \/ Rerun
Spec == Init /\ [][Next]_vars

----------------------------------------------------------------------------
(* Properties.                                                             *)

\* Whatever the generator has drawn so far is in range: a name component always
\* has its entry in Misc, nothing is replaced before the table is complete, and
\* a marker lies in a directory.
TypeOK ==
  /\ lab \in Labs /\ marker \in BOOLEAN /\ handed \in BOOLEAN
  /\ gen.nameComponents \subseteq DOMAIN gen.Misc
  /\ \A u \in Range(gen.Users) : u \in gen.used \union preservedUsers
  /\ \A r \in ToSet(table) : r.old # <<>>
  /\ marker => present

\* The types, and: what provisioning goes on with is a whole variant, however earlier runs
\* ended: every file of the source is there, no original name stands in any of
\* them, hosts and domains are as many as in the source, and the inventory
\* names the variant's own tree.
HandedIsWhole ==
  /\ TypeOK
  /\ handed => /\ present
               /\ Cardinality(DOMAIN target) = Cardinality(lab.files)
               /\ findNameViolations = {} /\ validateStructureCounts
               /\ \A p \in DOMAIN target : target[p].kind = "inventory" => target[p].tree = Tree

Made == pc = "over" /\ table # <<>>
Config == target[CHOOSE p \in ConfigFiles : TRUE].config

\* The labs the generator's table is a function on: one text stands for one
\* entity, and the domains are the three it knows.
Unambiguous == \A a, b \in ToSet(table) : a.old = b.old => a.new = b.new
KnownDomains == \A d \in ToSet(lab.domains) : d.name \in DOMAIN gen.Domains

\* Every place of a configuration that names a principal, a host or a domain,
\* in the order of the file.
Name(t) == AfterLast(t, "\\\\")
Reference(t) == IF Has(t, "$") THEN [kind |-> "host", text |-> Before(t, "$")]
                ELSE [kind |-> "principal", text |-> Name(t)]
Of(kind, t) == [kind |-> kind, text |-> t]
References(c) ==
  FlattenSeq(
    [i \in DOMAIN c.domains |->
       LET d == c.domains[i] IN
       <<Of("domain", d.name)>>
       \o FlattenSeq([k \in DOMAIN d.users |->
            <<Reference(d.users[k].name)>>
              \o [n \in DOMAIN d.users[k].groups |-> Reference(d.users[k].groups[n])]])
       \o FlattenSeq([k \in DOMAIN d.groups |->
            <<Reference(d.groups[k].name)>>
              \o [n \in DOMAIN d.groups[k].members |-> Reference(d.groups[k].members[n])]])
       \o FlattenSeq([k \in DOMAIN d.acls |->
            <<Reference(d.acls[k].for), Reference(d.acls[k].to)>>])])
  \o FlattenSeq(
    [i \in DOMAIN c.hosts |->
       LET h == c.hosts[i] IN
       <<Of("host", h.hostname), Of("domain", h.domain), Reference(h.login),
         Of("host", Before(h.source, ".")), Of("domain", After(h.source, "."))>>])

\* The variant is the source under another set of names: two places name one
\* principal, host or domain in it exactly when they do in the source, whatever
\* names were drawn and in whatever order texts of one length were replaced.
Isomorphic ==
  (Made /\ Unambiguous /\ KnownDomains) =>
    LET old == References(lab)
        new == References(Config)
    IN  /\ Len(old) = Len(new)
        /\ \A i \in DOMAIN old : old[i].kind = new[i].kind
        /\ \A i, j \in DOMAIN old :
             old[i].kind = old[j].kind =>
               ((old[i].text = old[j].text) <=> (new[i].text = new[j].text))

\* mapping.json tells the truth about users, groups and hosts: the entity the
\* source calls by one name the variant calls by the mapped one.
MappingIsRight ==
  (Made /\ Unambiguous) =>
    /\ \A i \in DOMAIN lab.domains :
         /\ {u.name : u \in ToSet(Config.domains[i].users)}
              = {gen.Users[u.name] : u \in ToSet(lab.domains[i].users)}
         /\ {g.name : g \in ToSet(Config.domains[i].groups)}
              = {gen.Groups[g.name] : g \in ToSet(lab.domains[i].groups)}
    /\ {h.hostname : h \in ToSet(Config.hosts)} = {h.new : h \in Range(gen.Hosts)}

\* A user whose name no other user has with another password can log on with the
\* mapped one, even where the text pass took the old password for a name, and so
\* can the scripts that hold it encrypted.
OneOfName(u) == \A v \in DomainUsers : v.name = u.name => v.password = u.password
PasswordsFollow ==
  Made =>
    /\ \A i \in DOMAIN lab.domains : \A k \in DOMAIN lab.domains[i].users :
         LET u == lab.domains[i].users[k] IN
         OneOfName(u) => Config.domains[i].users[k].password = gen.Passwords[u.password]
    /\ \A p \in DOMAIN target :
         target[p].kind = "script" => target[p].secret \in Range(gen.Passwords)
    /\ Unambiguous =>
         \A i \in DOMAIN lab.hosts :
           Config.hosts[i].remotePassword = gen.Passwords[lab.hosts[i].remotePassword]

\* All of it: the variant is the source renamed, and mapping.json says how.
SourceRenamed == Isomorphic /\ MappingIsRight /\ PasswordsFollow

Alone(t, n, i) ==
  /\ Occurs(t, n, i, FALSE)
  /\ ~(i > 1 /\ IsWord(t[i - 1])) /\ ~(i + Len(n) <= Len(t) /\ IsWord(t[i + Len(n)]))

\* No name the generator mapped stands as a word in the variant, neither between
\* "_", where the validation does not see it, nor in a path.
Anonymous ==
  Made =>
    \A p \in DOMAIN target : \A t \in {p} \union TextsOf(target[p]) :
      \A n \in DOMAIN gen.Misc \union DOMAIN gen.Users \union DOMAIN gen.Domains :
        (n \notin preservedUsers) => \A i \in DOMAIN t : ~Alone(t, n, i)
=============================================================================
