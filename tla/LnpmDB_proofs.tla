--------------------------- MODULE LnpmDB_proofs ---------------------------
(***************************************************************************)
(* The database's type invariant and the consistency of its buckets, for   *)
(* every set of names, builds, tags, projects and every bound on the ids.  *)
(***************************************************************************)
EXTENDS LnpmDB, TLAPS

(* NoRow is no row of any bucket, ids are positive.                        *)
LEMMA RowFacts ==
    /\ NoRow \notin Hash /\ NoRow \notin Package
    /\ NoRow \notin Project /\ NoRow \notin Link
    /\ NoId \notin Id /\ Id \subseteq Nat
    /\ 1 \in Id /\ 2 \in Id /\ 3 \in Id
    /\ Latest \in Tag
    /\ \A h \in Hash : FileCount[h] \in Nat
  BY DBAssumption DEF Id, NoId

(* findPackageByHashTx returns the id of a record with that name and hash, *)
(* or NoId when there is none.                                             *)
LEMMA FindPackage ==
  ASSUME NEW n, NEW h
  PROVE  /\ findPackageByHash(n, h) \in Id \cup {NoId}
         /\ findPackageByHash(n, h) # NoId =>
               packages[findPackageByHash(n, h)] = [name |-> n, hash |-> h]
         /\ findPackageByHash(n, h) = NoId =>
               \A i \in Id : packages[i] # [name |-> n, hash |-> h]
<1> DEFINE found == {i \in Id : packages[i] = [name |-> n, hash |-> h]}
<1>1. CASE found = {}
  <2>1. findPackageByHash(n, h) = NoId
    BY <1>1 DEF findPackageByHash
  <2> QED BY <1>1, <2>1
<1>2. CASE found # {}
  <2>1. findPackageByHash(n, h) = CHOOSE i \in found : TRUE
    BY <1>2 DEF findPackageByHash
  <2>2. findPackageByHash(n, h) \in found
    BY <1>2, <2>1
  <2> QED BY <2>2, RowFacts
<1> QED BY <1>1, <1>2

-----------------------------------------------------------------------------

LEMMA InitType == Init => TypeOK
<1> USE RowFacts DEF Init, TypeOK, Empty, Current
<1>1. CASE InitFresh /\ tags = [n \in Name |-> Empty(Tag)]
  BY <1>1 DEF InitFresh
<1>2. CASE InitV1 /\ tags = [n \in Name |-> Empty(Tag)]
  <2>1. PICK n \in Name, h \in Hash, q \in Path : InitV1!(n, h, q)
    BY <1>2 DEF InitV1
  <2>2. nextId \in Nat \ {0}
    BY <2>1
  <2>3. packages \in [Id -> Package \cup {NoRow}]
    BY <2>1 DEF Package
  <2>4. projects \in [Id -> Project \cup {NoRow}]
    BY <2>1 DEF Project
  <2>5. links \in [Id -> Link \cup {NoRow}]
    BY <2>1 DEF Link
  <2>6. byName \in [Name -> Id \cup {NoId}] /\ files \in [Id -> Hash \cup {NoRow}]
    BY <2>1
  <2>7. /\ byPath \in [Path -> Id \cup {NoId}]
        /\ byPackage \in [Id -> SUBSET Id] /\ byProject \in [Id -> SUBSET Id]
    BY <2>1
  <2> QED BY <1>2, <2>1, <2>2, <2>3, <2>4, <2>5, <2>6, <2>7
<1> QED BY <1>1, <1>2

(* The writes setTagTx makes keep every bucket well typed.                 *)
LEMMA SetTagType ==
  ASSUME TypeOK, NEW n \in Name, NEW t \in Tag, NEW h \in Hash, NEW id \in Id,
         setTag(n, t, h, id)
  PROVE  /\ tags' \in [Name -> [Tag -> Hash \cup {NoRow}]]
         /\ byName' \in [Name -> Id \cup {NoId}]
         /\ links' \in [Id -> Link \cup {NoRow}]
         /\ byPackage' \in [Id -> SUBSET Id]
         /\ byProject' \in [Id -> SUBSET Id]
<1> DEFINE carried == Carried(n, Retagged(n, t), id)
           dropped == Duplicate(carried, id)
<1>1. carried \subseteq Id /\ \A l \in carried : links[l] \in Link
  BY DEF Carried, TypeOK
<1>2. tags' \in [Name -> [Tag -> Hash \cup {NoRow}]]
  BY DEF setTag, TypeOK
<1>3. byName' \in [Name -> Id \cup {NoId}]
  BY DEF setTag, TypeOK
<1>4. links' \in [Id -> Link \cup {NoRow}]
  <2>1. \A l \in carried : [links[l] EXCEPT !.pkg = id] \in Link
    BY <1>1 DEF Link
  <2>2. links' = [l \in Id |->
                     IF l \in dropped THEN NoRow
                     ELSE IF l \in carried THEN [links[l] EXCEPT !.pkg = id]
                     ELSE links[l]]
    BY DEF setTag, moveLinks
  <2> HIDE DEF carried, dropped
  <2> QED BY <2>1, <2>2 DEF TypeOK
<1>5. byPackage' \in [Id -> SUBSET Id] /\ byProject' \in [Id -> SUBSET Id]
  <2>1. /\ byPackage' = [p \in Id |->
                            IF p = id THEN byPackage[p] \cup (carried \ dropped)
                            ELSE byPackage[p] \ carried]
        /\ byProject' = [q \in Id |-> byProject[q] \ dropped]
    BY DEF setTag, moveLinks
  <2> HIDE DEF carried, dropped
  <2> QED BY <1>1, <2>1 DEF TypeOK
<1> QED BY <1>2, <1>3, <1>4, <1>5

LEMMA NextType == TypeOK /\ [Next]_vars => TypeOK'
<1> SUFFICES ASSUME TypeOK, [Next]_vars PROVE TypeOK'
  OBVIOUS
<1> USE RowFacts
<1>1. CASE Migrate
  BY <1>1 DEF Migrate, TypeOK, Package, Current
<1>2. ASSUME NEW n \in Name, NEW h \in Hash, NEW t \in Tag,
             InsertPackageWithFilesTagged(n, h, t)
      PROVE  TypeOK'
  <2> DEFINE existing == findPackageByHash(n, h)
             id == IF existing = NoId THEN nextId ELSE existing
             startId == IF existing = NoId THEN nextId + 1 ELSE nextId
  <2>1. /\ id \in Id
        /\ packages' = [packages EXCEPT ![id] = [name |-> n, hash |-> h]]
        /\ setTag(n, t, h, id)
        /\ files' = [files EXCEPT ![id] = h]
        /\ nextId' = startId + FileCount[h]
        /\ UNCHANGED <<schema, projects, byPath>>
    BY <1>2 DEF InsertPackageWithFilesTagged
  <2> HIDE DEF id
  <2>2. nextId' \in Nat \ {0}
    BY <2>1 DEF TypeOK
  <2>3. packages' \in [Id -> Package \cup {NoRow}] /\ files' \in [Id -> Hash \cup {NoRow}]
    BY <2>1 DEF TypeOK, Package
  <2> QED BY <2>1, <2>2, <2>3, SetTagType DEF TypeOK
<1>3. ASSUME NEW n \in Name, NEW h \in Hash, NEW t \in Tag, SetTag(n, t, h)
      PROVE  TypeOK'
  <2>1. /\ findPackageByHash(n, h) \in Id
        /\ setTag(n, t, h, findPackageByHash(n, h))
        /\ UNCHANGED <<schema, nextId, packages, files, projects, byPath>>
    BY <1>3, FindPackage DEF SetTag
  <2> QED BY <2>1, SetTagType DEF TypeOK
<1>4. ASSUME NEW n \in Name, NEW t \in Tag, DeleteTag(n, t)
      PROVE  TypeOK'
  BY <1>4 DEF DeleteTag, TypeOK
<1>5. ASSUME NEW i \in Id, DeletePackage(i)
      PROVE  TypeOK'
  BY <1>5 DEF DeletePackage, TypeOK, Package
<1>6. ASSUME NEW q \in Path, NEW d \in Device \cup {NoDevice}, InsertProject(q, d)
      PROVE  TypeOK'
  <2>1. CASE byPath[q] # NoId /\ projects[byPath[q]] # NoRow
    <3>1. byPath[q] \in Id /\ projects[byPath[q]] \in Project
      BY <2>1 DEF TypeOK
    <3>2. [projects[byPath[q]] EXCEPT !.device = d] \in Project
      BY <3>1 DEF Project
    <3>3. projects' \in [Id -> Project \cup {NoRow}]
      BY <1>6, <2>1, <3>1, <3>2 DEF InsertProject, TypeOK
    <3> QED BY <1>6, <2>1, <3>3 DEF InsertProject, TypeOK
  <2>2. CASE ~(byPath[q] # NoId /\ projects[byPath[q]] # NoRow)
    <3>1. [path |-> q, device |-> d] \in Project
      BY DEF Project
    <3>2. /\ nextId \in Id /\ nextId' = nextId + 1
          /\ projects' = [projects EXCEPT ![nextId] = [path |-> q, device |-> d]]
          /\ byPath' = [byPath EXCEPT ![q] = nextId]
          /\ UNCHANGED <<schema, packages, byName, tags, files, links, byPackage, byProject>>
      BY <1>6, <2>2 DEF InsertProject
    <3> QED BY <3>1, <3>2 DEF TypeOK
  <2> QED BY <2>1, <2>2
<1>7. ASSUME NEW i \in Id, NEW d \in Device, SetProjectDevice(i, d)
      PROVE  TypeOK'
  BY <1>7 DEF SetProjectDevice, TypeOK, Project
<1>8. ASSUME NEW i \in Id, DeleteProject(i)
      PROVE  TypeOK'
  BY <1>8 DEF DeleteProject, withoutRows, TypeOK, Project
<1>9. ASSUME NEW p \in Id, NEW q \in Id, NEW t \in Tag, NEW pinned \in BOOLEAN,
             InsertLink(p, q, t, pinned)
      PROVE  TypeOK'
  <2>1. [pkg |-> p, proj |-> q, tag |-> t, pinned |-> pinned] \in Link
    BY DEF Link
  <2>2. links' \in [Id -> Link \cup {NoRow}]
    BY <1>9, <2>1 DEF InsertLink, withoutRows, TypeOK
  <2>3. byPackage' \in [Id -> SUBSET Id] /\ byProject' \in [Id -> SUBSET Id]
    BY <1>9 DEF InsertLink, withoutRows, TypeOK
  <2>4. nextId' \in Nat \ {0}
    BY <1>9 DEF InsertLink, withoutRows, TypeOK
  <2> QED BY <1>9, <2>2, <2>3, <2>4 DEF InsertLink, TypeOK
<1>10. ASSUME NEW p \in Id, NEW q \in Id, DeleteLink(p, q)
       PROVE  TypeOK'
  BY <1>10 DEF DeleteLink, TypeOK
<1>11. CASE UNCHANGED vars
  BY <1>11 DEF vars, TypeOK
<1> QED
  BY <1>1, <1>2, <1>3, <1>4, <1>5, <1>6, <1>7, <1>8, <1>9, <1>10, <1>11 DEF Next

(* Type correctness of every reachable database.                           *)
THEOREM TypeCorrect == Spec => []TypeOK
  BY InitType, NextType, PTL DEF Spec

-----------------------------------------------------------------------------
(* Consistency of the buckets.                                             *)

IInv == TypeOK /\ Consistent

LEMMA InitConsistent == Init => Consistent
<1> SUFFICES ASSUME Init PROVE Consistent
  OBVIOUS
<1> USE RowFacts DEF Empty, Current, LinkIndexesExact, LinksNameRows, RecordsDistinct,
         NameIndexIsLatest, TagsNameStoredBuilds, OneLinkPerName, PathIndexExact,
         FilesDescribeBuild, IdsAreFresh, packageName
<1>1. tags = [n \in Name |-> [t \in Tag |-> NoRow]]
  BY DEF Init
<1>2. CASE InitFresh
  BY <1>1, <1>2 DEF InitFresh, Consistent
<1>3. CASE InitV1
  <2>1. PICK n \in Name, h \in Hash, q \in Path : InitV1!(n, h, q)
    BY <1>3 DEF InitV1
  <2> DEFINE pkg  == [name |-> n, hash |-> h]
             proj == [path |-> q, device |-> NoDevice]
             link == [pkg |-> 1, proj |-> 2, tag |-> Latest, pinned |-> FALSE]
  <2>a. pkg # NoRow /\ proj # NoRow /\ link # NoRow
    <3>1. pkg \in Package /\ proj \in Project /\ link \in Link
      BY DEF Package, Project, Link
    <3> QED BY <3>1
  <2>b. \A i \in Id : /\ packages[i] = IF i = 1 THEN pkg ELSE NoRow
                      /\ files[i] = IF i = 1 THEN h ELSE NoRow
                      /\ projects[i] = IF i = 2 THEN proj ELSE NoRow
                      /\ links[i] = IF i = 3 THEN link ELSE NoRow
                      /\ byPackage[i] = IF i = 1 THEN {3} ELSE {}
                      /\ byProject[i] = IF i = 2 THEN {3} ELSE {}
    BY <2>1
  <2>c. /\ \A m \in Name : byName[m] = IF m = n THEN 1 ELSE NoId
        /\ \A p \in Path : byPath[p] = IF p = q THEN 2 ELSE NoId
        /\ schema = 1 /\ nextId = 4 + FileCount[h]
    BY <2>1
  <2>d. /\ pkg.name = n /\ pkg.hash = h /\ proj.path = q
        /\ link.pkg = 1 /\ link.proj = 2
    OBVIOUS
  <2> HIDE DEF pkg, proj, link
  <2>e. /\ \A l \in Id : links[l] # NoRow <=> l = 3
        /\ links[3].pkg = 1 /\ links[3].proj = 2
    BY <2>a, <2>b, <2>d
  <2>f. /\ \A i \in Id : byPackage[i] = IF i = 1 THEN {3} ELSE {}
        /\ \A i \in Id : byProject[i] = IF i = 2 THEN {3} ELSE {}
    BY <2>b
  <2>2. LinkIndexesExact
    BY <2>e, <2>f
  <2>3. LinksNameRows
    BY <2>a, <2>b, <2>e
  <2>4. RecordsDistinct
    BY <2>a, <2>b
  <2>5. NameIndexIsLatest
    BY <1>1, <2>a, <2>b, <2>c, <2>d
  <2>6. TagsNameStoredBuilds
    BY <1>1
  <2>7. OneLinkPerName
    BY <2>a, <2>b
  <2>8. PathIndexExact
    BY <2>a, <2>b, <2>c, <2>d
  <2>9. FilesDescribeBuild
    BY <2>a, <2>b, <2>d
  <2>10. IdsAreFresh
    <3>1. FileCount[h] \in Nat
      OBVIOUS
    <3> QED BY <2>b, <2>c, <3>1 DEF Id
  <2> QED BY <2>2, <2>3, <2>4, <2>5, <2>6, <2>7, <2>8, <2>9, <2>10 DEF Consistent
<1> QED BY <1>2, <1>3 DEF Init

(* The version a tag names before it moves is a record of its package.     *)
LEMMA PreviousIsVersion ==
  ASSUME NEW n, NEW t, NEW id, Previous(n, t, id) \in Id
  PROVE  /\ Previous(n, t, id) # id
         /\ packages[Previous(n, t, id)] = [name |-> n, hash |-> tags[n][t]]
<1>1. Previous(n, t, id) # NoId
  BY RowFacts
<1>2. /\ tags[n][t] # NoRow
      /\ Previous(n, t, id) = findPackageByHash(n, tags[n][t])
      /\ Previous(n, t, id) # id
  BY <1>1 DEF Previous
<1> QED BY <1>1, <1>2, FindPackage

(* A row that is carried is on a record of the package whose tag moved.    *)
LEMMA CarriedRows ==
  ASSUME IInv, NEW n, NEW ts, NEW id, NEW l \in Carried(n, ts, id)
  PROVE  /\ l \in Id /\ links[l] \in Link /\ links[l].pkg # id
         /\ packages[links[l].pkg] \in Package
         /\ packages[links[l].pkg].name = n
<1>1. PICK p \in Id : p = Previous(n, links[l].tag, id) /\ l \in byPackage[p]
  BY DEF Carried
<1>2. l \in Id /\ links[l] # NoRow /\ links[l] \in Link
  BY DEF Carried, IInv, TypeOK
<1>3. links[l].pkg = p
  BY <1>1, <1>2 DEF IInv, Consistent, LinkIndexesExact
<1>4. p # id /\ packages[p] = [name |-> n, hash |-> tags[n][links[l].tag]]
  BY <1>1, PreviousIsVersion
<1>5. packages[p] # NoRow
  BY <1>2, <1>3 DEF IInv, Consistent, LinksNameRows
<1> QED BY <1>2, <1>3, <1>4, <1>5 DEF IInv, TypeOK

(* moveLinksTx never has a duplicate to drop: a project on the destination *)
(* would hold two rows of one package.                                     *)
LEMMA NoDuplicate ==
  ASSUME IInv, NEW n, NEW ts, NEW id \in Id,
         byPackage[id] = {} \/ packageName(id) = n
  PROVE  Duplicate(Carried(n, ts, id), id) = {}
<1> SUFFICES ASSUME NEW l \in Carried(n, ts, id), NEW m \in byPackage[id],
                    links[m] # NoRow, links[m].proj = links[l].proj
             PROVE  FALSE
  BY DEF Duplicate
<1>1. /\ l \in Id /\ links[l] # NoRow /\ links[l].pkg # id
      /\ packageName(links[l].pkg) = n
  BY CarriedRows, RowFacts DEF packageName
<1>2. m \in Id /\ links[m].pkg = id
  BY DEF IInv, TypeOK, Consistent, LinkIndexesExact
<1>3. packageName(links[m].pkg) = n
  BY <1>2
<1>4. l = m
  BY <1>1, <1>2, <1>3 DEF IInv, Consistent, OneLinkPerName
<1> QED BY <1>1, <1>2, <1>4

(* What setTagTx does to the links: the carried ones are repointed, no row *)
(* goes, and no row changes project or package name.                       *)
LEMMA SetTagLinks ==
  ASSUME IInv, NEW n \in Name, NEW t \in Tag, NEW h \in Hash, NEW id \in Id,
         byPackage[id] = {} \/ packageName(id) = n,
         setTag(n, t, h, id)
  PROVE  /\ LinkIndexesExact'
         /\ \A l \in Id :
              /\ links'[l] = NoRow <=> links[l] = NoRow
              /\ links[l] # NoRow =>
                   /\ links'[l].proj = links[l].proj
                   /\ \/ links'[l].pkg = links[l].pkg
                      \/ links'[l].pkg = id /\ packageName(links[l].pkg) = n
<1> DEFINE C == Carried(n, Retagged(n, t), id)
<1>1. /\ links' = [l \in Id |-> IF l \in C THEN [links[l] EXCEPT !.pkg = id] ELSE links[l]]
      /\ byPackage' = [p \in Id |-> IF p = id THEN byPackage[p] \cup C ELSE byPackage[p] \ C]
      /\ byProject' = byProject
  <2>1. Duplicate(C, id) = {}
    BY NoDuplicate
  <2> HIDE DEF C
  <2>2. moveLinks(C, id)
    BY DEF setTag, C
  <2> QED BY <2>1, <2>2 DEF moveLinks, IInv, TypeOK
<1>2. \A l \in C : /\ l \in Id /\ links[l] \in Link /\ links[l].pkg # id
                   /\ packageName(links[l].pkg) = n
  BY CarriedRows, RowFacts DEF packageName
<1> HIDE DEF C
<1>3. \A l \in C : /\ links'[l] # NoRow
                   /\ links'[l].pkg = id /\ links'[l].proj = links[l].proj
  <2> SUFFICES ASSUME NEW l \in C
               PROVE  /\ links'[l] # NoRow
                      /\ links'[l].pkg = id /\ links'[l].proj = links[l].proj
    OBVIOUS
  <2>1. l \in Id /\ links[l] \in Link /\ links'[l] = [links[l] EXCEPT !.pkg = id]
    BY <1>1, <1>2
  <2>2. [links[l] EXCEPT !.pkg = id] \in Link
    BY <2>1 DEF Link
  <2> QED BY <2>1, <2>2, RowFacts DEF Link
<1>4. \A l \in Id \ C : links'[l] = links[l]
  BY <1>1
<1>5. LinkIndexesExact'
  <2> SUFFICES ASSUME NEW l \in Id, NEW i \in Id
               PROVE  /\ l \in byPackage'[i] <=> links'[l] # NoRow /\ links'[l].pkg = i
                      /\ l \in byProject'[i] <=> links'[l] # NoRow /\ links'[l].proj = i
    BY DEF LinkIndexesExact
  <2>1. /\ l \in byPackage[i] <=> links[l] # NoRow /\ links[l].pkg = i
        /\ l \in byProject[i] <=> links[l] # NoRow /\ links[l].proj = i
    BY DEF IInv, Consistent, LinkIndexesExact
  <2>2. CASE l \in C
    <3>1. links[l] # NoRow
      BY <1>2, <2>2, RowFacts
    <3> QED BY <1>1, <1>2, <1>3, <2>1, <2>2, <3>1
  <2>3. CASE l \notin C
    BY <1>1, <1>4, <2>1, <2>3
  <2> QED BY <2>2, <2>3
<1>6. ASSUME NEW l \in Id
      PROVE  /\ links'[l] = NoRow <=> links[l] = NoRow
             /\ links[l] # NoRow =>
                  /\ links'[l].proj = links[l].proj
                  /\ \/ links'[l].pkg = links[l].pkg
                     \/ links'[l].pkg = id /\ packageName(links[l].pkg) = n
  <2>1. CASE l \in C
    BY <1>2, <1>3, <2>1, RowFacts
  <2>2. CASE l \notin C
    BY <1>4, <2>2
  <2> QED BY <2>1, <2>2
<1> QED BY <1>5, <1>6

(* Writing a record and pointing a tag at it keeps what relates tags,      *)
(* names and links.  The record is new or was there already.               *)
LEMMA SetTagConsistent ==
  ASSUME IInv, NEW n \in Name, NEW t \in Tag, NEW h \in Hash, NEW id \in Id,
         schema = Current, schema' = schema,
         packages[id] \in {NoRow, [name |-> n, hash |-> h]},
         \A i \in Id : packages'[i] = IF i = id THEN [name |-> n, hash |-> h]
                                      ELSE packages[i],
         projects' = projects,
         setTag(n, t, h, id)
  PROVE  /\ LinkIndexesExact' /\ LinksNameRows' /\ OneLinkPerName'
         /\ NameIndexIsLatest' /\ TagsNameStoredBuilds'
<1> DEFINE build == [name |-> n, hash |-> h]
<1>1. build \in Package /\ build # NoRow /\ build.name = n /\ build.hash = h
  BY RowFacts DEF Package
<1>2. \A i \in Id : packages[i] # NoRow => packages'[i] = packages[i]
  OBVIOUS
<1>3. byPackage[id] = {} \/ packageName(id) = n
  <2>1. CASE packages[id] = NoRow
    <3>1. \A l \in Id : l \notin byPackage[id]
      BY <2>1 DEF IInv, Consistent, LinkIndexesExact, LinksNameRows
    <3>2. byPackage[id] \subseteq Id
      BY DEF IInv, TypeOK
    <3> QED BY <3>1, <3>2
  <2>2. CASE packages[id] = build
    BY <1>1, <2>2 DEF packageName
  <2> QED BY <2>1, <2>2
<1>4. /\ LinkIndexesExact'
      /\ \A l \in Id :
           /\ links'[l] = NoRow <=> links[l] = NoRow
           /\ links[l] # NoRow =>
                /\ links'[l].proj = links[l].proj
                /\ \/ links'[l].pkg = links[l].pkg
                   \/ links'[l].pkg = id /\ packageName(links[l].pkg) = n
  BY <1>3, SetTagLinks
<1>5. packages'[id] = build /\ packageName(id)' = n
  BY <1>1 DEF packageName
<1>6. \A l \in Id : links[l] # NoRow =>
         /\ links[l].pkg \in Id /\ links[l].proj \in Id
         /\ packages[links[l].pkg] # NoRow /\ projects[links[l].proj] # NoRow
  BY DEF IInv, TypeOK, Link, Consistent, LinksNameRows
<1> HIDE DEF build
<1>7. LinksNameRows'
  BY <1>1, <1>2, <1>4, <1>5, <1>6 DEF LinksNameRows
<1>8. \A l \in Id : links[l] # NoRow => packageName(links[l].pkg)' = packageName(links[l].pkg)
  <2> SUFFICES ASSUME NEW l \in Id, links[l] # NoRow
               PROVE  packageName(links[l].pkg)' = packageName(links[l].pkg)
    OBVIOUS
  <2>1. packages'[links[l].pkg] = packages[links[l].pkg]
    BY <1>2, <1>6
  <2>2. CASE links'[l].pkg = links[l].pkg
    BY <2>1, <2>2 DEF packageName
  <2>3. CASE links'[l].pkg = id /\ packageName(links[l].pkg) = n
    BY <1>5, <2>3
  <2> QED BY <1>4, <2>2, <2>3
<1>9. OneLinkPerName'
  <2> SUFFICES ASSUME NEW l \in Id, NEW m \in Id,
                      links'[l] # NoRow, links'[m] # NoRow,
                      links'[l].proj = links'[m].proj,
                      packageName(links[l].pkg)' = packageName(links[m].pkg)'
               PROVE  l = m
    BY DEF OneLinkPerName
  <2>1. links[l] # NoRow /\ links[m] # NoRow /\ links[l].proj = links[m].proj
    BY <1>4
  <2>2. packageName(links[l].pkg) = packageName(links[m].pkg)
    BY <1>8, <2>1
  <2> QED BY <2>1, <2>2 DEF IInv, Consistent, OneLinkPerName
<1>10. /\ tags' = [tags EXCEPT ![n] =
                     [u \in Tag |-> IF u \in Retagged(n, t) THEN h ELSE @[u]]]
       /\ byName' = IF Latest \in Retagged(n, t) THEN [byName EXCEPT ![n] = id] ELSE byName
  BY DEF setTag
<1>11. Latest \notin Retagged(n, t) => byName[n] # NoId
  BY DEF Retagged
<1>12. NameIndexIsLatest'
  <2> SUFFICES ASSUME NEW m \in Name
               PROVE  IF byName'[m] = NoId THEN tags'[m][Latest] = NoRow
                      ELSE /\ packages'[byName'[m]] # NoRow
                           /\ packages'[byName'[m]].name = m
                           /\ tags'[m][Latest] = packages'[byName'[m]].hash
    BY DEF NameIndexIsLatest
  <2>1. IF byName[m] = NoId THEN tags[m][Latest] = NoRow
        ELSE /\ packages[byName[m]] # NoRow
             /\ packages[byName[m]].name = m
             /\ tags[m][Latest] = packages[byName[m]].hash
    BY DEF IInv, Consistent, NameIndexIsLatest
  <2>2. byName[m] # NoId => byName[m] \in Id /\ packages'[byName[m]] = packages[byName[m]]
    BY <1>2, <2>1 DEF IInv, TypeOK
  <2>3. CASE m = n /\ Latest \in Retagged(n, t)
    <3>1. byName'[m] = id /\ tags'[m][Latest] = h
      BY <1>10, <2>3, RowFacts DEF IInv, TypeOK
    <3> QED BY <1>1, <1>5, <2>3, <3>1, RowFacts
  <2>4. CASE ~(m = n /\ Latest \in Retagged(n, t))
    <3>1. byName'[m] = byName[m] /\ tags'[m][Latest] = tags[m][Latest]
      BY <1>10, <2>4, RowFacts DEF IInv, TypeOK
    <3> QED BY <2>1, <2>2, <3>1
  <2> QED BY <2>3, <2>4
<1>13. TagsNameStoredBuilds'
  <2> SUFFICES ASSUME NEW m \in Name, NEW u \in Tag, tags'[m][u] # NoRow
               PROVE  \E i \in Id : packages'[i] = [name |-> m, hash |-> tags'[m][u]]
    BY DEF TagsNameStoredBuilds
  <2>1. CASE m = n /\ u \in Retagged(n, t)
    <3>1. tags'[m][u] = h
      BY <1>10, <2>1 DEF IInv, TypeOK
    <3> QED BY <1>5, <2>1, <3>1 DEF build
  <2>2. CASE ~(m = n /\ u \in Retagged(n, t))
    <3>1. tags'[m][u] = tags[m][u]
      BY <1>10, <2>2 DEF IInv, TypeOK
    <3>2. PICK i \in Id : packages[i] = [name |-> m, hash |-> tags[m][u]]
      BY <3>1 DEF IInv, Consistent, TagsNameStoredBuilds
    <3>3. packages[i] # NoRow
      <4>1. tags[m][u] \in Hash
        BY <3>1 DEF IInv, TypeOK
      <4>2. [name |-> m, hash |-> tags[m][u]] \in Package
        BY <4>1 DEF Package
      <4> QED BY <3>2, <4>2, RowFacts
    <3> QED BY <1>2, <3>1, <3>2, <3>3
  <2> QED BY <2>1, <2>2
<1> QED BY <1>4, <1>7, <1>9, <1>12, <1>13

-----------------------------------------------------------------------------
(* One lemma per method.                                                   *)

LEMMA MigrateConsistent == IInv /\ Migrate => Consistent'
<1> SUFFICES ASSUME IInv, Migrate PROVE Consistent'
  OBVIOUS
<1> USE RowFacts
<1>1. /\ UNCHANGED <<nextId, packages, byName, files, projects, byPath, links, byPackage, byProject>>
      /\ schema' = Current
  BY DEF Migrate
<1>2. \A n \in Name : byName[n] # NoId =>
         /\ byName[n] \in Id /\ packages[byName[n]] \in Package
         /\ packages[byName[n]].name = n
  <2> SUFFICES ASSUME NEW n \in Name, byName[n] # NoId
               PROVE  /\ byName[n] \in Id /\ packages[byName[n]] \in Package
                      /\ packages[byName[n]].name = n
    OBVIOUS
  <2>1. byName[n] \in Id
    BY DEF IInv, TypeOK
  <2>2. packages[byName[n]] # NoRow /\ packages[byName[n]].name = n
    BY DEF IInv, Consistent, NameIndexIsLatest
  <2> QED BY <2>1, <2>2 DEF IInv, TypeOK
<1>3. \A n \in Name, t \in Tag :
         tags'[n][t] = IF byName[n] # NoId /\ t = Latest THEN packages[byName[n]].hash
                       ELSE tags[n][t]
  BY <1>2 DEF Migrate, IInv, TypeOK
<1>4. NameIndexIsLatest'
  BY <1>1, <1>2, <1>3 DEF IInv, Consistent, NameIndexIsLatest
<1>5. TagsNameStoredBuilds'
  <2> SUFFICES ASSUME NEW n \in Name, NEW t \in Tag, tags'[n][t] # NoRow
               PROVE  \E i \in Id : packages[i] = [name |-> n, hash |-> tags'[n][t]]
    BY <1>1 DEF TagsNameStoredBuilds
  <2>1. CASE byName[n] # NoId /\ t = Latest
    <3>1. packages[byName[n]] = [name |-> n, hash |-> tags'[n][t]]
      BY <1>2, <1>3, <2>1 DEF Package
    <3> QED BY <1>2, <2>1, <3>1
  <2>2. CASE ~(byName[n] # NoId /\ t = Latest)
    BY <1>3, <2>2 DEF IInv, Consistent, TagsNameStoredBuilds
  <2> QED BY <2>1, <2>2
<1>6. /\ LinkIndexesExact' /\ LinksNameRows' /\ RecordsDistinct' /\ OneLinkPerName'
      /\ PathIndexExact' /\ FilesDescribeBuild' /\ IdsAreFresh'
  BY <1>1 DEF IInv, Consistent, LinkIndexesExact, LinksNameRows, RecordsDistinct,
       OneLinkPerName, PathIndexExact, FilesDescribeBuild, IdsAreFresh, packageName
<1> QED BY <1>4, <1>5, <1>6 DEF Consistent

LEMMA PublishConsistent ==
  ASSUME IInv, NEW n \in Name, NEW h \in Hash, NEW t \in Tag,
         InsertPackageWithFilesTagged(n, h, t)
  PROVE  Consistent'
<1> USE RowFacts
<1> DEFINE existing == findPackageByHash(n, h)
           id == IF existing = NoId THEN nextId ELSE existing
           startId == IF existing = NoId THEN nextId + 1 ELSE nextId
           build == [name |-> n, hash |-> h]
<1>1. /\ schema = Current /\ id \in Id
      /\ packages' = [packages EXCEPT ![id] = build]
      /\ setTag(n, t, h, id)
      /\ files' = [files EXCEPT ![id] = h]
      /\ nextId' = startId + FileCount[h]
      /\ UNCHANGED <<schema, projects, byPath>>
  BY DEF InsertPackageWithFilesTagged
<1>2. /\ packages[id] \in {NoRow, build}
      /\ \A i \in Id \ {id} : packages[i] # build
  <2>1. CASE existing = NoId
    BY <1>1, <2>1, FindPackage DEF IInv, TypeOK, Consistent, IdsAreFresh
  <2>2. CASE existing # NoId
    <3>1. packages[id] = build
      BY <2>2, FindPackage
    <3>2. build # NoRow
      BY DEF Package
    <3> QED BY <1>1, <3>1, <3>2 DEF IInv, Consistent, RecordsDistinct
  <2> QED BY <2>1, <2>2
<1>3. nextId' >= nextId /\ id < nextId' /\ nextId \in Nat /\ nextId' \in Nat
  <2>1. nextId \in Nat /\ FileCount[h] \in Nat
    BY DEF IInv, TypeOK
  <2>2. CASE existing = NoId
    BY <1>1, <2>1, <2>2
  <2>3. CASE existing # NoId
    <3>1. packages[id] # NoRow
      <4>1. packages[id] = build
        BY <2>3, FindPackage
      <4> QED BY <4>1 DEF Package
    <3>2. id < nextId
      BY <1>1, <2>1, <3>1 DEF IInv, Consistent, IdsAreFresh, Id
    <3>3. nextId' = nextId + FileCount[h]
      BY <1>1, <2>3
    <3>4. id \in Nat
      BY <1>1 DEF Id
    <3> HIDE DEF id
    <3> QED BY <2>1, <3>2, <3>3, <3>4
  <2> QED BY <2>2, <2>3
<1>4. \A i \in Id : /\ packages'[i] = IF i = id THEN build ELSE packages[i]
                    /\ files'[i] = IF i = id THEN h ELSE files[i]
  BY <1>1 DEF IInv, TypeOK
<1>5. build # NoRow /\ build.hash = h /\ build.name = n
  BY DEF Package
<1>6. /\ LinkIndexesExact' /\ LinksNameRows' /\ OneLinkPerName'
      /\ NameIndexIsLatest' /\ TagsNameStoredBuilds'
  <2> HIDE DEF id
  <2> QED BY <1>1, <1>2, <1>4, SetTagConsistent
<1>7. \A l \in Id : links'[l] = NoRow <=> links[l] = NoRow
  <2> HIDE DEF id
  <2>1. byPackage[id] = {} \/ packageName(id) = n
    <3>1. CASE packages[id] = NoRow
      <4>1. \A l \in Id : l \notin byPackage[id]
        BY <1>1, <3>1 DEF IInv, Consistent, LinkIndexesExact, LinksNameRows
      <4>2. byPackage[id] \subseteq Id
        BY <1>1 DEF IInv, TypeOK
      <4> QED BY <4>1, <4>2
    <3>2. CASE packages[id] = build
      BY <1>5, <3>2 DEF packageName
    <3> QED BY <1>2, <3>1, <3>2
  <2> QED BY <1>1, <2>1, SetTagLinks
<1> HIDE DEF id, build, existing, startId
<1>8. RecordsDistinct'
  BY <1>2, <1>4 DEF RecordsDistinct, IInv, Consistent
<1>9. FilesDescribeBuild'
  BY <1>4, <1>5 DEF FilesDescribeBuild, IInv, Consistent
<1>10. IdsAreFresh'
  BY <1>1, <1>3, <1>4, <1>7 DEF IdsAreFresh, IInv, Consistent, Id
<1>11. PathIndexExact'
  BY <1>1 DEF PathIndexExact, IInv, Consistent
<1> QED BY <1>6, <1>8, <1>9, <1>10, <1>11 DEF Consistent

LEMMA SetTagKeepsConsistent ==
  ASSUME IInv, NEW n \in Name, NEW h \in Hash, NEW t \in Tag, SetTag(n, t, h)
  PROVE  Consistent'
<1> USE RowFacts
<1> DEFINE id == findPackageByHash(n, h)
<1>1. /\ schema = Current /\ id \in Id
      /\ packages[id] = [name |-> n, hash |-> h]
      /\ setTag(n, t, h, id)
      /\ UNCHANGED <<schema, nextId, packages, files, projects, byPath>>
  BY FindPackage DEF SetTag
<1>2. packageName(id) = n
  BY <1>1 DEF packageName, Package
<1> HIDE DEF id
<1>3. /\ LinkIndexesExact' /\ LinksNameRows' /\ OneLinkPerName'
      /\ NameIndexIsLatest' /\ TagsNameStoredBuilds'
  <2>1. \A i \in Id : packages'[i] = IF i = id THEN [name |-> n, hash |-> h] ELSE packages[i]
    BY <1>1
  <2> QED BY <1>1, <2>1, SetTagConsistent
<1>4. \A l \in Id : links'[l] = NoRow <=> links[l] = NoRow
  BY <1>1, <1>2, SetTagLinks
<1>5. RecordsDistinct' /\ PathIndexExact' /\ FilesDescribeBuild' /\ IdsAreFresh'
  <2>1. RecordsDistinct'
    BY <1>1 DEF IInv, Consistent, RecordsDistinct
  <2>2. PathIndexExact'
    BY <1>1 DEF IInv, Consistent, PathIndexExact
  <2>3. FilesDescribeBuild'
    BY <1>1 DEF IInv, Consistent, FilesDescribeBuild
  <2>4. IdsAreFresh'
    BY <1>1, <1>4 DEF IInv, Consistent, IdsAreFresh
  <2> QED BY <2>1, <2>2, <2>3, <2>4
<1> QED BY <1>3, <1>5 DEF Consistent

LEMMA DeleteTagConsistent ==
  ASSUME IInv, NEW n \in Name, NEW t \in Tag, DeleteTag(n, t)
  PROVE  Consistent'
<1> USE RowFacts
<1>1. /\ t # Latest
      /\ UNCHANGED <<schema, nextId, packages, byName, files, projects, byPath,
                     links, byPackage, byProject>>
      /\ \A m \in Name, u \in Tag :
           tags'[m][u] = IF m = n /\ u = t THEN NoRow ELSE tags[m][u]
  BY DEF DeleteTag, IInv, TypeOK
<1>2. NameIndexIsLatest'
  BY <1>1 DEF IInv, Consistent, NameIndexIsLatest
<1>3. TagsNameStoredBuilds'
  BY <1>1 DEF IInv, Consistent, TagsNameStoredBuilds
<1>4. /\ LinkIndexesExact' /\ LinksNameRows' /\ RecordsDistinct' /\ OneLinkPerName'
      /\ PathIndexExact' /\ FilesDescribeBuild' /\ IdsAreFresh'
  BY <1>1 DEF IInv, Consistent, LinkIndexesExact, LinksNameRows, RecordsDistinct,
       OneLinkPerName, PathIndexExact, FilesDescribeBuild, IdsAreFresh, packageName
<1> QED BY <1>2, <1>3, <1>4 DEF Consistent

LEMMA DeletePackageConsistent ==
  ASSUME IInv, NEW i \in Id, DeletePackage(i)
  PROVE  Consistent'
<1> USE RowFacts
<1> DEFINE n == packages[i].name
           h == packages[i].hash
<1>1. /\ schema = Current /\ packages[i] # NoRow /\ packages[i] \in Package
      /\ UNCHANGED <<schema, nextId, projects, byPath>>
      /\ n \in Name /\ h \in Hash /\ packages[i] = [name |-> n, hash |-> h]
  BY DEF DeletePackage, IInv, TypeOK, Package
<1>2. \A j \in Id :
         /\ packages'[j] = IF j = i THEN NoRow ELSE packages[j]
         /\ files'[j] = IF j = i THEN NoRow ELSE files[j]
         /\ byPackage'[j] = IF j = i THEN {} ELSE byPackage[j]
         /\ byProject'[j] = byProject[j] \ byPackage[i]
         /\ links'[j] = IF j \in byPackage[i] THEN NoRow ELSE links[j]
  BY DEF DeletePackage, IInv, TypeOK
<1>3. \A m \in Name :
         /\ byName'[m] = IF m = n /\ byName[m] = i THEN NoId ELSE byName[m]
         /\ \A t \in Tag : tags'[m][t] = IF m = n /\ tags[m][t] = h THEN NoRow
                                        ELSE tags[m][t]
  BY <1>1 DEF DeletePackage, IInv, TypeOK
<1> HIDE DEF n, h
<1>4. \A l \in Id : links'[l] = IF links[l] # NoRow /\ links[l].pkg = i THEN NoRow
                               ELSE links[l]
  BY <1>2 DEF IInv, Consistent, LinkIndexesExact
<1>5. \A l \in Id : links[l] # NoRow =>
         /\ links[l].pkg \in Id /\ links[l].proj \in Id
         /\ packages[links[l].pkg] # NoRow /\ projects[links[l].proj] # NoRow
  BY DEF IInv, TypeOK, Link, Consistent, LinksNameRows
<1>6. LinkIndexesExact'
  BY <1>2, <1>4 DEF IInv, Consistent, LinkIndexesExact
<1>7. LinksNameRows'
  BY <1>1, <1>2, <1>4, <1>5 DEF LinksNameRows
<1>8. RecordsDistinct'
  BY <1>2 DEF IInv, Consistent, RecordsDistinct
<1>9. NameIndexIsLatest'
  <2> SUFFICES ASSUME NEW m \in Name
               PROVE  IF byName'[m] = NoId THEN tags'[m][Latest] = NoRow
                      ELSE /\ packages'[byName'[m]] # NoRow
                           /\ packages'[byName'[m]].name = m
                           /\ tags'[m][Latest] = packages'[byName'[m]].hash
    BY <1>1 DEF NameIndexIsLatest
  <2>1. IF byName[m] = NoId THEN tags[m][Latest] = NoRow
        ELSE /\ packages[byName[m]] # NoRow
             /\ packages[byName[m]].name = m
             /\ tags[m][Latest] = packages[byName[m]].hash
    BY <1>1 DEF IInv, Consistent, NameIndexIsLatest
  <2>2. byName[m] # NoId => byName[m] \in Id /\ packages[byName[m]] \in Package
    BY <2>1 DEF IInv, TypeOK
  <2>3. CASE byName[m] = i
    <3>1. m = n
      BY <1>1, <2>1, <2>3
    <3> QED BY <1>1, <1>3, <2>1, <2>3, <3>1
  <2>4. CASE byName[m] # i /\ byName[m] # NoId
    <3>1. packages[byName[m]] # packages[i]
      BY <2>1, <2>2, <2>4 DEF IInv, Consistent, RecordsDistinct
    <3>2. ~(m = n /\ tags[m][Latest] = h)
      BY <1>1, <2>1, <2>2, <2>4, <3>1 DEF Package
    <3>3. byName'[m] = byName[m] /\ tags'[m][Latest] = tags[m][Latest]
      BY <1>3, <2>4, <3>2
    <3>4. packages'[byName[m]] = packages[byName[m]]
      BY <1>2, <2>2, <2>4
    <3> QED BY <2>1, <2>4, <3>3, <3>4
  <2>5. CASE byName[m] = NoId
    BY <1>3, <2>1, <2>5
  <2> QED BY <2>3, <2>4, <2>5
<1>10. TagsNameStoredBuilds'
  <2> SUFFICES ASSUME NEW m \in Name, NEW t \in Tag, tags'[m][t] # NoRow
               PROVE  \E j \in Id : packages'[j] = [name |-> m, hash |-> tags'[m][t]]
    BY DEF TagsNameStoredBuilds
  <2>1. tags'[m][t] = tags[m][t] /\ ~(m = n /\ tags[m][t] = h)
    BY <1>3
  <2>2. PICK j \in Id : packages[j] = [name |-> m, hash |-> tags[m][t]]
    BY <2>1 DEF IInv, Consistent, TagsNameStoredBuilds
  <2>3. j # i
    BY <1>1, <2>1, <2>2
  <2> QED BY <1>2, <2>1, <2>2, <2>3
<1>11. OneLinkPerName'
  <2>1. \A l \in Id : links'[l] # NoRow =>
           /\ links'[l] = links[l]
           /\ packageName(links[l].pkg)' = packageName(links[l].pkg)
    BY <1>2, <1>4, <1>5 DEF packageName
  <2> SUFFICES ASSUME NEW l \in Id, NEW m \in Id,
                      links'[l] # NoRow, links'[m] # NoRow,
                      links'[l].proj = links'[m].proj,
                      packageName(links[l].pkg)' = packageName(links[m].pkg)'
               PROVE  l = m
    BY DEF OneLinkPerName
  <2>2. /\ links[l] # NoRow /\ links[m] # NoRow /\ links[l].proj = links[m].proj
        /\ packageName(links[l].pkg) = packageName(links[m].pkg)
    BY <2>1
  <2> QED BY <2>2 DEF IInv, Consistent, OneLinkPerName
<1>12. PathIndexExact'
  BY <1>1 DEF IInv, Consistent, PathIndexExact
<1>13. FilesDescribeBuild'
  BY <1>2 DEF IInv, Consistent, FilesDescribeBuild
<1>14. IdsAreFresh'
  BY <1>1, <1>2, <1>4 DEF IInv, Consistent, IdsAreFresh
<1> QED BY <1>6, <1>7, <1>8, <1>9, <1>10, <1>11, <1>12, <1>13, <1>14 DEF Consistent

(* A step that leaves packages, tags and links alone can disturb only what *)
(* is said of projects.                                                    *)
LEMMA ProjectWrites ==
  ASSUME IInv,
         UNCHANGED <<schema, packages, byName, tags, files, links, byPackage, byProject>>
  PROVE  /\ LinkIndexesExact' /\ RecordsDistinct' /\ NameIndexIsLatest'
         /\ TagsNameStoredBuilds' /\ OneLinkPerName' /\ FilesDescribeBuild'
  BY DEF IInv, Consistent, LinkIndexesExact, RecordsDistinct, NameIndexIsLatest,
     TagsNameStoredBuilds, OneLinkPerName, FilesDescribeBuild, packageName

(* So a write that keeps every project's path keeps the database whole.    *)
LEMMA ProjectUpdate ==
  ASSUME IInv,
         UNCHANGED <<schema, nextId, packages, byName, tags, files, byPath,
                     links, byPackage, byProject>>,
         \A j \in Id : /\ projects'[j] = NoRow <=> projects[j] = NoRow
                       /\ projects[j] # NoRow => projects'[j].path = projects[j].path
  PROVE  Consistent'
<1>1. LinksNameRows'
  <2> SUFFICES ASSUME NEW l \in Id, links[l] # NoRow
               PROVE  packages[links[l].pkg] # NoRow /\ projects'[links[l].proj] # NoRow
    BY DEF LinksNameRows
  <2>1. /\ links[l].proj \in Id
        /\ packages[links[l].pkg] # NoRow /\ projects[links[l].proj] # NoRow
    BY DEF IInv, TypeOK, Link, Consistent, LinksNameRows
  <2> QED BY <2>1
<1>2. PathIndexExact'
  <2> SUFFICES ASSUME NEW q \in Path, NEW i \in Id
               PROVE  byPath[q] = i <=> projects'[i] # NoRow /\ projects'[i].path = q
    BY DEF PathIndexExact
  <2>1. byPath[q] = i <=> projects[i] # NoRow /\ projects[i].path = q
    BY DEF IInv, Consistent, PathIndexExact
  <2> QED BY <2>1
<1>3. IdsAreFresh'
  <2> SUFFICES ASSUME NEW i \in Id, i >= nextId
               PROVE  packages[i] = NoRow /\ projects'[i] = NoRow /\ links[i] = NoRow
    BY DEF IdsAreFresh
  <2> QED BY DEF IInv, Consistent, IdsAreFresh
<1> QED BY <1>1, <1>2, <1>3, ProjectWrites DEF Consistent

LEMMA InsertProjectConsistent ==
  ASSUME IInv, NEW q \in Path, NEW d \in Device \cup {NoDevice}, InsertProject(q, d)
  PROVE  Consistent'
<1> USE RowFacts
<1>1. UNCHANGED <<schema, packages, byName, tags, files, links, byPackage, byProject>>
  BY DEF InsertProject
<1>2. /\ LinkIndexesExact' /\ RecordsDistinct' /\ NameIndexIsLatest'
      /\ TagsNameStoredBuilds' /\ OneLinkPerName' /\ FilesDescribeBuild'
  BY <1>1, ProjectWrites
<1>3. CASE byPath[q] # NoId /\ projects[byPath[q]] # NoRow
  <2>1. /\ nextId' = nextId /\ byPath' = byPath
        /\ \A i \in Id : /\ projects'[i] = NoRow <=> projects[i] = NoRow
                         /\ projects[i] # NoRow => projects'[i].path = projects[i].path
    <3> DEFINE p == [projects[byPath[q]] EXCEPT !.device = d]
    <3>1. byPath[q] \in Id /\ projects[byPath[q]] \in Project
      BY <1>3 DEF IInv, TypeOK
    <3>2. p \in Project /\ p.path = projects[byPath[q]].path
      BY <3>1 DEF Project
    <3>3. \A i \in Id : projects'[i] \in {projects[i], IF i = byPath[q] THEN p ELSE projects[i]}
      BY <1>3, <3>1 DEF InsertProject, IInv, TypeOK
    <3>4. nextId' = nextId /\ byPath' = byPath
      BY <1>3 DEF InsertProject
    <3> HIDE DEF p
    <3> QED BY <1>3, <3>2, <3>3, <3>4
  <2> QED BY <1>1, <2>1, ProjectUpdate
<1>4. CASE ~(byPath[q] # NoId /\ projects[byPath[q]] # NoRow)
  <2> DEFINE p == [path |-> q, device |-> d]
  <2>1. /\ nextId \in Id /\ nextId' = nextId + 1
        /\ \A i \in Id : projects'[i] = IF i = nextId THEN p ELSE projects[i]
        /\ \A r \in Path : byPath'[r] = IF r = q THEN nextId ELSE byPath[r]
    BY <1>4 DEF InsertProject, IInv, TypeOK
  <2>2. p # NoRow /\ p.path = q
    BY DEF Project
  <2>3. projects[nextId] = NoRow /\ \A l \in Id : links[l] # NoRow => links[l].proj # nextId
    <3>1. nextId \in Nat /\ nextId >= nextId
      BY DEF IInv, TypeOK
    <3>2. projects[nextId] = NoRow
      BY <2>1, <3>1 DEF IInv, Consistent, IdsAreFresh
    <3> QED BY <3>2 DEF IInv, Consistent, LinksNameRows
  <2>4. \A i \in Id : ~(projects[i] # NoRow /\ projects[i].path = q)
    <3> SUFFICES ASSUME NEW i \in Id, projects[i] # NoRow, projects[i].path = q
                 PROVE  FALSE
      OBVIOUS
    <3>1. byPath[q] = i
      BY DEF IInv, Consistent, PathIndexExact
    <3> QED BY <1>4, <3>1
  <2> HIDE DEF p
  <2>5. LinksNameRows'
    BY <1>1, <2>1, <2>2 DEF IInv, TypeOK, Link, Consistent, LinksNameRows
  <2>6. PathIndexExact'
    <3> SUFFICES ASSUME NEW r \in Path, NEW i \in Id
                 PROVE  byPath'[r] = i <=> projects'[i] # NoRow /\ projects'[i].path = r
      BY DEF PathIndexExact
    <3>1. byPath[r] = i <=> projects[i] # NoRow /\ projects[i].path = r
      BY DEF IInv, Consistent, PathIndexExact
    <3> QED BY <2>1, <2>2, <2>3, <2>4, <3>1
  <2>7. IdsAreFresh'
    <3>1. nextId \in Nat
      BY DEF IInv, TypeOK
    <3> QED BY <1>1, <2>1, <3>1 DEF IInv, Consistent, IdsAreFresh, Id
  <2> QED BY <1>2, <2>5, <2>6, <2>7 DEF Consistent
<1> QED BY <1>3, <1>4

LEMMA SetProjectDeviceConsistent ==
  ASSUME IInv, NEW i \in Id, NEW d \in Device, SetProjectDevice(i, d)
  PROVE  Consistent'
<1> USE RowFacts
<1>1. UNCHANGED <<schema, nextId, packages, byName, tags, files, byPath,
                  links, byPackage, byProject>>
  BY DEF SetProjectDevice
<1>2. \A j \in Id : /\ projects'[j] = NoRow <=> projects[j] = NoRow
                    /\ projects[j] # NoRow => projects'[j].path = projects[j].path
  <2> DEFINE p == [projects[i] EXCEPT !.device = d]
  <2>1. projects[i] # NoRow /\ projects[i] \in Project
    BY DEF SetProjectDevice, IInv, TypeOK
  <2>2. p \in Project /\ p.path = projects[i].path
    BY <2>1 DEF Project
  <2>3. \A j \in Id : projects'[j] = IF j = i THEN p ELSE projects[j]
    BY DEF SetProjectDevice, IInv, TypeOK
  <2> HIDE DEF p
  <2> QED BY <2>1, <2>2, <2>3
<1> QED BY <1>1, <1>2, ProjectUpdate

LEMMA DeleteProjectConsistent ==
  ASSUME IInv, NEW i \in Id, DeleteProject(i)
  PROVE  Consistent'
<1> USE RowFacts
<1> DEFINE q == projects[i].path
<1>1. /\ schema = Current /\ projects[i] # NoRow /\ q \in Path
      /\ UNCHANGED <<schema, nextId, packages, byName, tags, files>>
  BY DEF DeleteProject, withoutRows, IInv, TypeOK, Project
<1>2. byPath[q] = i
  BY <1>1 DEF IInv, Consistent, PathIndexExact
<1>3. {l \in byProject[i] : links[l] # NoRow} = {l \in Id : links[l] # NoRow /\ links[l].proj = i}
  <2>1. byProject[i] \subseteq Id
    BY DEF IInv, TypeOK
  <2>2. \A l \in Id : l \in byProject[i] <=> links[l] # NoRow /\ links[l].proj = i
    BY DEF IInv, Consistent, LinkIndexesExact
  <2> QED BY <2>1, <2>2
<1>4. /\ \A l \in Id : links'[l] = IF links[l] # NoRow /\ links[l].proj = i THEN NoRow
                                  ELSE links[l]
      /\ \A p, l \in Id : l \in byPackage'[p] <=>
            l \in byPackage[p] /\ ~(links[l] # NoRow /\ links[l].proj = i /\ links[l].pkg = p)
      /\ \A j \in Id : /\ byProject'[j] = IF j = i THEN {} ELSE byProject[j]
                       /\ projects'[j] = IF j = i THEN NoRow ELSE projects[j]
      /\ \A r \in Path : byPath'[r] = IF r = q THEN NoId ELSE byPath[r]
  BY <1>1, <1>2, <1>3 DEF DeleteProject, withoutRows, IInv, TypeOK
<1> HIDE DEF q
<1>5. LinkIndexesExact'
  <2> SUFFICES ASSUME NEW l \in Id, NEW j \in Id
               PROVE  /\ l \in byPackage'[j] <=> links'[l] # NoRow /\ links'[l].pkg = j
                      /\ l \in byProject'[j] <=> links'[l] # NoRow /\ links'[l].proj = j
    BY DEF LinkIndexesExact
  <2>1. /\ l \in byPackage[j] <=> links[l] # NoRow /\ links[l].pkg = j
        /\ l \in byProject[j] <=> links[l] # NoRow /\ links[l].proj = j
    BY DEF IInv, Consistent, LinkIndexesExact
  <2> QED BY <1>4, <2>1
<1>6. LinksNameRows'
  <2> SUFFICES ASSUME NEW l \in Id, links'[l] # NoRow
               PROVE  packages[links'[l].pkg] # NoRow /\ projects'[links'[l].proj] # NoRow
    BY <1>1 DEF LinksNameRows
  <2>1. links[l] # NoRow /\ links'[l] = links[l] /\ links[l].proj # i
    BY <1>4
  <2>2. /\ links[l].proj \in Id
        /\ packages[links[l].pkg] # NoRow /\ projects[links[l].proj] # NoRow
    BY <2>1 DEF IInv, TypeOK, Link, Consistent, LinksNameRows
  <2> QED BY <1>4, <2>1, <2>2
<1>7. OneLinkPerName'
  <2> SUFFICES ASSUME NEW l \in Id, NEW m \in Id,
                      links'[l] # NoRow, links'[m] # NoRow,
                      links'[l].proj = links'[m].proj,
                      packageName(links[l].pkg)' = packageName(links[m].pkg)'
               PROVE  l = m
    BY DEF OneLinkPerName
  <2>1. /\ links[l] # NoRow /\ links[m] # NoRow
        /\ links'[l] = links[l] /\ links'[m] = links[m]
    BY <1>4
  <2>2. packageName(links[l].pkg) = packageName(links[m].pkg)
    BY <1>1, <2>1 DEF packageName
  <2> QED BY <2>1, <2>2 DEF IInv, Consistent, OneLinkPerName
<1>8. PathIndexExact'
  <2> SUFFICES ASSUME NEW r \in Path, NEW j \in Id
               PROVE  byPath'[r] = j <=> projects'[j] # NoRow /\ projects'[j].path = r
    BY DEF PathIndexExact
  <2>1. byPath[r] = j <=> projects[j] # NoRow /\ projects[j].path = r
    BY DEF IInv, Consistent, PathIndexExact
  <2> QED BY <1>2, <1>4, <2>1 DEF q
<1>9. RecordsDistinct' /\ NameIndexIsLatest' /\ TagsNameStoredBuilds' /\ FilesDescribeBuild'
  BY <1>1 DEF IInv, Consistent, RecordsDistinct, NameIndexIsLatest,
     TagsNameStoredBuilds, FilesDescribeBuild
<1>10. IdsAreFresh'
  BY <1>1, <1>4 DEF IInv, Consistent, IdsAreFresh
<1> QED BY <1>5, <1>6, <1>7, <1>8, <1>9, <1>10 DEF Consistent

(* A step that touches only links leaves the buckets of packages, tags and *)
(* projects as consistent as they were.                                    *)
LEMMA LinkWrites ==
  ASSUME IInv, UNCHANGED <<schema, packages, byName, tags, files, projects, byPath>>
  PROVE  /\ RecordsDistinct' /\ NameIndexIsLatest' /\ TagsNameStoredBuilds'
         /\ PathIndexExact' /\ FilesDescribeBuild'
  BY DEF IInv, Consistent, RecordsDistinct, NameIndexIsLatest,
     TagsNameStoredBuilds, PathIndexExact, FilesDescribeBuild

LEMMA DeleteLinkConsistent ==
  ASSUME IInv, NEW p \in Id, NEW q \in Id, DeleteLink(p, q)
  PROVE  Consistent'
<1>1. UNCHANGED <<schema, nextId, packages, byName, tags, files, projects, byPath>>
  BY DEF DeleteLink
<1>2. PICK d \in Id :
        /\ links[d] # NoRow /\ links[d].pkg = p /\ links[d].proj = q
        /\ links' = [links EXCEPT ![d] = NoRow]
        /\ byPackage' = [byPackage EXCEPT ![p] = @ \ {d}]
        /\ byProject' = [byProject EXCEPT ![q] = @ \ {d}]
  BY DEF DeleteLink
<1>3. \A l \in Id : links'[l] = IF l = d THEN NoRow ELSE links[l]
  BY <1>2 DEF IInv, TypeOK
<1>4. LinkIndexesExact'
  <2> SUFFICES ASSUME NEW l \in Id, NEW j \in Id
               PROVE  /\ l \in byPackage'[j] <=> links'[l] # NoRow /\ links'[l].pkg = j
                      /\ l \in byProject'[j] <=> links'[l] # NoRow /\ links'[l].proj = j
    BY DEF LinkIndexesExact
  <2>1. /\ l \in byPackage[j] <=> links[l] # NoRow /\ links[l].pkg = j
        /\ l \in byProject[j] <=> links[l] # NoRow /\ links[l].proj = j
    BY DEF IInv, Consistent, LinkIndexesExact
  <2>2. /\ byPackage'[j] = IF j = p THEN byPackage[j] \ {d} ELSE byPackage[j]
        /\ byProject'[j] = IF j = q THEN byProject[j] \ {d} ELSE byProject[j]
    BY <1>2 DEF IInv, TypeOK
  <2> QED BY <1>2, <1>3, <2>1, <2>2
<1>5. LinksNameRows'
  BY <1>1, <1>3 DEF IInv, Consistent, LinksNameRows
<1>6. OneLinkPerName'
  BY <1>1, <1>3 DEF IInv, Consistent, OneLinkPerName, packageName
<1>7. IdsAreFresh'
  BY <1>1, <1>3 DEF IInv, Consistent, IdsAreFresh
<1> QED BY <1>1, <1>4, <1>5, <1>6, <1>7, LinkWrites DEF Consistent

LEMMA InsertLinkConsistent ==
  ASSUME IInv, NEW p \in Id, NEW q \in Id, NEW t \in Tag, NEW pinned \in BOOLEAN,
         InsertLink(p, q, t, pinned)
  PROVE  Consistent'
<1> USE RowFacts
<1> DEFINE row      == [pkg |-> p, proj |-> q, tag |-> t, pinned |-> pinned]
           held     == {l \in byProject[q] : links[l] # NoRow}
           same     == {l \in held : links[l].pkg = p}
           replaced == {l \in held : /\ links[l].pkg # p
                                     /\ packageName(links[l].pkg) = packageName(p)}
           new      == IF same = {} THEN {nextId} ELSE {}
<1>1. /\ UNCHANGED <<schema, packages, byName, tags, files, projects, byPath>>
      /\ packages[p] # NoRow /\ projects[q] # NoRow
      /\ new \subseteq Id
      /\ nextId' = IF same = {} THEN nextId + 1 ELSE nextId
      /\ links' = [l \in Id |-> IF l \in same \cup new THEN row
                                ELSE IF l \in replaced THEN NoRow
                                ELSE links[l]]
      /\ byPackage' = [r \in Id |->
                         (byPackage[r] \ {l \in replaced : links[l].pkg = r})
                           \cup (IF r = p THEN new ELSE {})]
      /\ byProject' = [byProject EXCEPT ![q] = (@ \ replaced) \cup new]
  BY DEF InsertLink, withoutRows
<1>2. row # NoRow /\ row.pkg = p /\ row.proj = q
  <2>1. row \in Link
    BY DEF Link
  <2> QED BY <2>1
<1>3. \A l \in Id : l \in held <=> links[l] # NoRow /\ links[l].proj = q
  BY DEF IInv, Consistent, LinkIndexesExact
<1>4. held \subseteq Id
  BY DEF IInv, TypeOK
<1>5. \A l \in Id : /\ l \in same <=> l \in held /\ links[l].pkg = p
                    /\ l \in replaced <=> /\ l \in held /\ links[l].pkg # p
                                          /\ packageName(links[l].pkg) = packageName(p)
  OBVIOUS
<1>6. same \subseteq Id /\ replaced \subseteq Id
  BY <1>4
<1>7. \A l \in new : l \in Id /\ links[l] = NoRow /\ l = nextId /\ same = {}
  <2> SUFFICES ASSUME NEW l \in new
               PROVE  l \in Id /\ links[l] = NoRow /\ l = nextId /\ same = {}
    OBVIOUS
  <2>1. l = nextId /\ same = {}
    OBVIOUS
  <2>2. nextId \in Nat /\ nextId >= nextId /\ nextId \in Id
    BY <1>1, <2>1 DEF IInv, TypeOK
  <2> QED BY <2>1, <2>2 DEF IInv, Consistent, IdsAreFresh
<1> HIDE DEF held, same, replaced, row
<1>8. /\ \A l \in Id : links'[l] = IF l \in same \cup new THEN row
                                  ELSE IF l \in replaced THEN NoRow
                                  ELSE links[l]
      /\ \A l, r \in Id :
           l \in byPackage'[r] <=> \/ l \in byPackage[r] /\ ~(l \in replaced /\ links[l].pkg = r)
                                   \/ r = p /\ l \in new
      /\ \A l, r \in Id :
           l \in byProject'[r] <=> \/ l \in byProject[r] /\ ~(r = q /\ l \in replaced)
                                   \/ r = q /\ l \in new
  <2> HIDE DEF new
  <2>1. byProject \in [Id -> SUBSET Id]
    BY DEF IInv, TypeOK
  <2> QED BY <1>1, <2>1
<1>9. \A l \in Id : links[l] # NoRow =>
         /\ links[l].pkg \in Id /\ links[l].proj \in Id
         /\ packages[links[l].pkg] # NoRow /\ projects[links[l].proj] # NoRow
  BY DEF IInv, TypeOK, Link, Consistent, LinksNameRows
<1>10. new = {} \/ new = {nextId}
  OBVIOUS
<1>11. new = {} <=> same # {}
  OBVIOUS
<1> HIDE DEF new
<1>12. LinkIndexesExact'
  <2> SUFFICES ASSUME NEW l \in Id, NEW j \in Id
               PROVE  /\ l \in byPackage'[j] <=> links'[l] # NoRow /\ links'[l].pkg = j
                      /\ l \in byProject'[j] <=> links'[l] # NoRow /\ links'[l].proj = j
    BY DEF LinkIndexesExact
  <2>1. /\ l \in byPackage[j] <=> links[l] # NoRow /\ links[l].pkg = j
        /\ l \in byProject[j] <=> links[l] # NoRow /\ links[l].proj = j
    BY DEF IInv, Consistent, LinkIndexesExact
  <2>2. CASE l \in new
    BY <1>2, <1>7, <1>8, <2>1, <2>2
  <2>3. CASE l \in same
    <3>1. l \notin new /\ l \notin replaced /\ links'[l] = row
      BY <1>3, <1>5, <1>7, <1>8, <2>3
    <3> QED BY <1>2, <1>3, <1>5, <1>8, <2>1, <2>3, <3>1
  <2>4. CASE l \in replaced
    <3>1. l \notin new /\ l \notin same /\ links'[l] = NoRow
      BY <1>3, <1>5, <1>7, <1>8, <2>4
    <3> QED BY <1>3, <1>5, <1>8, <2>1, <2>4, <3>1
  <2>5. CASE l \notin new \cup same \cup replaced
    BY <1>8, <2>1, <2>5
  <2> QED BY <2>2, <2>3, <2>4, <2>5
<1>13. LinksNameRows'
  <2> SUFFICES ASSUME NEW l \in Id, links'[l] # NoRow
               PROVE  packages[links'[l].pkg] # NoRow /\ projects[links'[l].proj] # NoRow
    BY <1>1 DEF LinksNameRows
  <2>1. CASE l \in same \cup new
    BY <1>1, <1>2, <1>8, <2>1
  <2>2. CASE l \notin same \cup new
    BY <1>8, <1>9, <2>2
  <2> QED BY <2>1, <2>2
<1>14. OneLinkPerName'
  <2> SUFFICES ASSUME NEW l \in Id, NEW m \in Id,
                      links'[l] # NoRow, links'[m] # NoRow,
                      links'[l].proj = links'[m].proj,
                      packageName(links[l].pkg)' = packageName(links[m].pkg)'
               PROVE  l = m
    BY DEF OneLinkPerName
  <2>1. packageName(links'[l].pkg) = packageName(links'[m].pkg)
    BY <1>1 DEF packageName
  <2>2. \A k \in Id : k \notin same \cup new /\ links'[k] # NoRow => links'[k] = links[k] /\ k \notin replaced
    BY <1>8
  <2>3. \A k \in same : k \in Id /\ links[k] # NoRow /\ links[k].proj = q /\ links[k].pkg = p
    BY <1>3, <1>5, <1>6
  <2>4. \A k, o \in same : k = o
    BY <2>3 DEF IInv, Consistent, OneLinkPerName
  <2>5. \A k \in Id : k \notin same \cup new /\ links'[k] # NoRow /\ links'[k].proj = q
                        => packageName(links'[k].pkg) # packageName(p)
    BY <1>3, <1>5, <2>2
  <2>6. \A k \in same \cup new : links'[k] = row
    BY <1>6, <1>7, <1>8
  <2>7. CASE l \in same \cup new /\ m \in same \cup new
    <3>1. CASE new = {}
      BY <2>4, <2>7, <3>1
    <3>2. CASE new # {}
      BY <1>10, <1>11, <2>7, <3>2
    <3> QED BY <3>1, <3>2
  <2>8. CASE l \in same \cup new /\ m \notin same \cup new
    BY <1>2, <2>1, <2>5, <2>6, <2>8
  <2>9. CASE l \notin same \cup new /\ m \in same \cup new
    BY <1>2, <2>1, <2>5, <2>6, <2>9
  <2>10. CASE l \notin same \cup new /\ m \notin same \cup new
    BY <2>1, <2>2, <2>10 DEF IInv, Consistent, OneLinkPerName
  <2> QED BY <2>7, <2>8, <2>9, <2>10
<1>15. IdsAreFresh'
  <2>1. nextId \in Nat /\ nextId' \in Nat /\ nextId' >= nextId
    BY <1>1 DEF IInv, TypeOK
  <2>2. \A k \in new : nextId' > k
    BY <1>1, <1>7, <2>1
  <2> SUFFICES ASSUME NEW i \in Id, i >= nextId'
               PROVE  packages[i] = NoRow /\ projects[i] = NoRow /\ links'[i] = NoRow
    BY <1>1 DEF IdsAreFresh
  <2>3. i \in Nat /\ i >= nextId /\ i \notin new
    BY <2>1, <2>2 DEF Id
  <2>4. packages[i] = NoRow /\ projects[i] = NoRow /\ links[i] = NoRow
    BY <2>3 DEF IInv, Consistent, IdsAreFresh
  <2>5. i \notin same
    BY <1>3, <1>5, <2>4
  <2> QED BY <1>8, <2>3, <2>4, <2>5
<1> QED BY <1>1, <1>12, <1>13, <1>14, <1>15, LinkWrites DEF Consistent

LEMMA NextConsistent == IInv /\ [Next]_vars => IInv'
<1> SUFFICES ASSUME IInv, [Next]_vars PROVE Consistent'
  BY NextType DEF IInv
<1>1. CASE Migrate
  BY <1>1, MigrateConsistent
<1>2. ASSUME NEW n \in Name, NEW h \in Hash, NEW t \in Tag,
             InsertPackageWithFilesTagged(n, h, t)
      PROVE  Consistent'
  BY <1>2, PublishConsistent
<1>3. ASSUME NEW n \in Name, NEW h \in Hash, NEW t \in Tag, SetTag(n, t, h)
      PROVE  Consistent'
  BY <1>3, SetTagKeepsConsistent
<1>4. ASSUME NEW n \in Name, NEW t \in Tag, DeleteTag(n, t)
      PROVE  Consistent'
  BY <1>4, DeleteTagConsistent
<1>5. ASSUME NEW i \in Id, DeletePackage(i)
      PROVE  Consistent'
  BY <1>5, DeletePackageConsistent
<1>6. ASSUME NEW q \in Path, NEW d \in Device \cup {NoDevice}, InsertProject(q, d)
      PROVE  Consistent'
  BY <1>6, InsertProjectConsistent
<1>7. ASSUME NEW i \in Id, NEW d \in Device, SetProjectDevice(i, d)
      PROVE  Consistent'
  BY <1>7, SetProjectDeviceConsistent
<1>8. ASSUME NEW i \in Id, DeleteProject(i)
      PROVE  Consistent'
  BY <1>8, DeleteProjectConsistent
<1>9. ASSUME NEW p \in Id, NEW q \in Id, NEW t \in Tag, NEW pinned \in BOOLEAN,
              InsertLink(p, q, t, pinned)
       PROVE  Consistent'
  BY <1>9, InsertLinkConsistent
<1>10. ASSUME NEW p \in Id, NEW q \in Id, DeleteLink(p, q)
       PROVE  Consistent'
  BY <1>10, DeleteLinkConsistent
<1>11. CASE UNCHANGED vars
  BY <1>11, ProjectUpdate DEF vars
<1> QED
  BY <1>1, <1>2, <1>3, <1>4, <1>5, <1>6, <1>7, <1>8, <1>9, <1>10, <1>11 DEF Next

(* Whatever the sequence of transactions, the indexes name exactly the     *)
(* rows, links name builds and projects that are there, `latest` and the   *)
(* name index agree, tags name stored builds, and a project holds one row  *)
(* per package.                                                            *)
THEOREM Consistency == Spec => []Consistent
<1>1. Init => IInv
  BY InitType, InitConsistent DEF IInv
<1>2. IInv => Consistent
  BY DEF IInv
<1> QED BY <1>1, <1>2, NextConsistent, PTL DEF Spec

----------------------------------------------------------------------------
(***************************************************************************)
(* What a transaction of the database may never do, proved from the        *)
(* inductive invariant IInv.                                               *)
(***************************************************************************)

(* What the rows that are there look like.                                 *)
LEMMA RowsPresent ==
  ASSUME IInv, NEW l \in Id, links[l] # NoRow
  PROVE  /\ links[l] \in Link /\ links[l].pkg \in Id /\ links[l].proj \in Id
         /\ links[l].tag \in Tag /\ links[l].pinned \in BOOLEAN
         /\ packages[links[l].pkg] \in Package /\ packages[links[l].pkg] # NoRow
         /\ projects[links[l].proj] \in Project /\ projects[links[l].proj] # NoRow
         /\ l \in byPackage[links[l].pkg] /\ l \in byProject[links[l].proj]
<1>1. links[l] \in Link /\ links[l].pkg \in Id /\ links[l].proj \in Id
  BY DEF IInv, TypeOK, Link
<1>2. packages[links[l].pkg] # NoRow /\ projects[links[l].proj] # NoRow
  BY DEF IInv, Consistent, LinksNameRows
<1>3. packages[links[l].pkg] \in Package /\ projects[links[l].proj] \in Project
  BY <1>1, <1>2 DEF IInv, TypeOK
<1>4. l \in byPackage[links[l].pkg] /\ l \in byProject[links[l].proj]
  BY <1>1 DEF IInv, Consistent, LinkIndexesExact
<1> QED BY <1>1, <1>2, <1>3, <1>4 DEF Link

(* A record is found under its own name and hash.                          *)
LEMMA FindRecord ==
  ASSUME IInv, NEW i \in Id, NEW n, NEW h,
         packages[i] # NoRow, packages[i] = [name |-> n, hash |-> h]
  PROVE  findPackageByHash(n, h) = i
<1>1. findPackageByHash(n, h) # NoId
  BY FindPackage
<1>2. /\ findPackageByHash(n, h) \in Id
      /\ packages[findPackageByHash(n, h)] = packages[i]
  BY <1>1, FindPackage
<1> QED BY <1>2 DEF IInv, Consistent, RecordsDistinct

(* The rows a tag operation carries: those that follow a channel it moves, *)
(* on the very build that channel named.                                   *)
LEMMA CarriedExactly ==
  ASSUME IInv, NEW n \in Name, NEW ts, NEW id, NEW l \in Id
  PROVE  l \in Carried(n, ts, id) <=>
            /\ links[l] # NoRow
            /\ ~links[l].pinned
            /\ links[l].tag \in ts
            /\ links[l].pkg # id
            /\ packages[links[l].pkg] = [name |-> n, hash |-> tags[n][links[l].tag]]
<1>1. ASSUME l \in Carried(n, ts, id)
      PROVE  /\ links[l] # NoRow /\ ~links[l].pinned
             /\ links[l].tag \in ts /\ links[l].pkg # id
             /\ packages[links[l].pkg] = [name |-> n, hash |-> tags[n][links[l].tag]]
  <2>1. PICK p \in Id : p = Previous(n, links[l].tag, id) /\ l \in byPackage[p]
    BY <1>1 DEF Carried
  <2>2. links[l].pkg = p
    BY <2>1 DEF IInv, Consistent, LinkIndexesExact
  <2> QED BY <1>1, <2>1, <2>2, PreviousIsVersion DEF Carried
<1>2. ASSUME links[l] # NoRow, ~links[l].pinned,
             links[l].tag \in ts, links[l].pkg # id,
             packages[links[l].pkg] = [name |-> n, hash |-> tags[n][links[l].tag]]
      PROVE  l \in Carried(n, ts, id)
  <2> DEFINE h == tags[n][links[l].tag]
             p == links[l].pkg
  <2>1. /\ p \in Id /\ packages[p] \in Package /\ packages[p] # NoRow
        /\ l \in byPackage[p]
    BY <1>2, RowsPresent
  <2>2. findPackageByHash(n, h) = p
    BY <1>2, <2>1, FindRecord
  <2>3. h # NoRow
    BY <1>2, <2>1, RowFacts DEF Package
  <2>4. Previous(n, links[l].tag, id) = p
    BY <1>2, <2>2, <2>3 DEF Previous
  <2> QED BY <1>2, <2>1, <2>4 DEF Carried
<1> QED BY <1>1, <1>2

(* Both ways a tag moves, in one shape: the build's record is there or is  *)
(* written, by no other record, and every carried row is repointed at it.  *)
TagMoves(n, t, h, id) ==
    /\ schema = Current /\ schema' = schema
    /\ packages[id] \in {NoRow, [name |-> n, hash |-> h]}
    /\ \A i \in Id \ {id} : packages[i] # [name |-> n, hash |-> h]
    /\ \A i \in Id : packages'[i] = IF i = id THEN [name |-> n, hash |-> h]
                                    ELSE packages[i]
    /\ projects' = projects /\ byPath' = byPath
    /\ setTag(n, t, h, id)

LEMMA PublishMoves ==
  ASSUME IInv, NEW n \in Name, NEW h \in Hash, NEW t \in Tag,
         InsertPackageWithFilesTagged(n, h, t)
  PROVE  \E id \in Id : TagMoves(n, t, h, id)
<1> USE RowFacts
<1> DEFINE existing == findPackageByHash(n, h)
           id == IF existing = NoId THEN nextId ELSE existing
           build == [name |-> n, hash |-> h]
<1>1. /\ schema = Current /\ id \in Id
      /\ packages' = [packages EXCEPT ![id] = build]
      /\ setTag(n, t, h, id)
      /\ UNCHANGED <<schema, projects, byPath>>
  BY DEF InsertPackageWithFilesTagged
<1>2. /\ packages[id] \in {NoRow, build}
      /\ \A i \in Id \ {id} : packages[i] # build
  <2>1. CASE existing = NoId
    BY <1>1, <2>1, FindPackage DEF IInv, TypeOK, Consistent, IdsAreFresh
  <2>2. CASE existing # NoId
    <3>1. packages[id] = build
      BY <2>2, FindPackage
    <3>2. build # NoRow
      BY DEF Package
    <3> QED BY <1>1, <3>1, <3>2 DEF IInv, Consistent, RecordsDistinct
  <2> QED BY <2>1, <2>2
<1>3. \A i \in Id : packages'[i] = IF i = id THEN build ELSE packages[i]
  BY <1>1 DEF IInv, TypeOK
<1> HIDE DEF id
<1> QED BY <1>1, <1>2, <1>3 DEF TagMoves

LEMMA SetTagMoves ==
  ASSUME IInv, NEW n \in Name, NEW h \in Hash, NEW t \in Tag, SetTag(n, t, h)
  PROVE  \E id \in Id : TagMoves(n, t, h, id)
<1> USE RowFacts
<1> DEFINE id == findPackageByHash(n, h)
           build == [name |-> n, hash |-> h]
<1>1. /\ schema = Current /\ id \in Id
      /\ packages[id] = build
      /\ setTag(n, t, h, id)
      /\ UNCHANGED <<schema, nextId, packages, files, projects, byPath>>
  BY FindPackage DEF SetTag
<1>2. build # NoRow
  BY DEF Package
<1> HIDE DEF id
<1>3. \A i \in Id \ {id} : packages[i] # build
  BY <1>1, <1>2 DEF IInv, Consistent, RecordsDistinct
<1> QED BY <1>1, <1>3 DEF TagMoves

LEMMA TagMovesRecords ==
  ASSUME IInv, NEW n \in Name, NEW t \in Tag, NEW h \in Hash, NEW id \in Id,
         TagMoves(n, t, h, id)
  PROVE  /\ projects' = projects
         /\ packages'[id] = [name |-> n, hash |-> h]
         /\ \A i \in Id : packages[i] # NoRow => packages'[i] = packages[i]
  BY DEF TagMoves

LEMMA TagMovesTags ==
  ASSUME IInv, NEW n \in Name, NEW t \in Tag, NEW h \in Hash, NEW id \in Id,
         TagMoves(n, t, h, id), NEW m \in Name, NEW u \in Tag
  PROVE  tags'[m][u] = IF m = n /\ u \in Retagged(n, t) THEN h ELSE tags[m][u]
  BY DEF TagMoves, setTag, IInv, TypeOK

Repointed(n, t, id, l) ==
    links'[l] = IF l \in Carried(n, Retagged(n, t), id)
                THEN [links[l] EXCEPT !.pkg = id] ELSE links[l]

LEMMA TagMovesLinks ==
  ASSUME IInv, NEW n \in Name, NEW t \in Tag, NEW h \in Hash, NEW id \in Id,
         TagMoves(n, t, h, id), NEW l \in Id
  PROVE  Repointed(n, t, id, l)
<1> DEFINE C == Carried(n, Retagged(n, t), id)
           build == [name |-> n, hash |-> h]
<1>1. build # NoRow /\ build.name = n
  BY RowFacts DEF Package
<1>2. byPackage[id] = {} \/ packageName(id) = n
  <2>1. CASE packages[id] = NoRow
    <3>1. \A k \in Id : k \notin byPackage[id]
      BY <2>1 DEF IInv, Consistent, LinkIndexesExact, LinksNameRows
    <3>2. byPackage[id] \subseteq Id
      BY DEF IInv, TypeOK
    <3> QED BY <3>1, <3>2
  <2>2. CASE packages[id] = build
    BY <1>1, <2>2 DEF packageName
  <2> QED BY <2>1, <2>2 DEF TagMoves
<1>3. Duplicate(C, id) = {}
  BY <1>2, NoDuplicate
<1> HIDE DEF C
<1>4. moveLinks(C, id)
  BY DEF TagMoves, setTag, C
<1> QED BY <1>3, <1>4 DEF moveLinks, Repointed, C

-----------------------------------------------------------------------------
(* What the other methods leave behind, row by row.                        *)

LEMMA DeletePackageRows ==
  ASSUME IInv, NEW i \in Id, DeletePackage(i)
  PROVE  /\ schema = Current /\ packages[i] # NoRow /\ packages[i] \in Package
         /\ UNCHANGED <<projects, byPath>>
         /\ \A j \in Id : packages'[j] = IF j = i THEN NoRow ELSE packages[j]
         /\ \A l \in Id : links'[l] = IF links[l] # NoRow /\ links[l].pkg = i THEN NoRow
                                     ELSE links[l]
         /\ \A m \in Name, t \in Tag :
              tags'[m][t] = IF m = packages[i].name /\ tags[m][t] = packages[i].hash
                            THEN NoRow ELSE tags[m][t]
<1>1. /\ schema = Current /\ packages[i] # NoRow /\ packages[i] \in Package
      /\ UNCHANGED <<projects, byPath>>
  BY DEF DeletePackage, IInv, TypeOK
<1>2. packages[i].name \in Name
  BY <1>1 DEF Package
<1>3. \A j \in Id : /\ packages'[j] = IF j = i THEN NoRow ELSE packages[j]
                    /\ links'[j] = IF j \in byPackage[i] THEN NoRow ELSE links[j]
  BY DEF DeletePackage, IInv, TypeOK
<1>4. \A l \in Id : links'[l] = IF links[l] # NoRow /\ links[l].pkg = i THEN NoRow
                               ELSE links[l]
  BY <1>3 DEF IInv, Consistent, LinkIndexesExact
<1>5. \A m \in Name, t \in Tag :
         tags'[m][t] = IF m = packages[i].name /\ tags[m][t] = packages[i].hash
                       THEN NoRow ELSE tags[m][t]
  BY <1>2 DEF DeletePackage, IInv, TypeOK
<1> QED BY <1>1, <1>3, <1>4, <1>5

(* Row k is the one of project q, and was its row if it had one.           *)
ProjectWritten(q, d, k) ==
    /\ UNCHANGED <<packages, byName, tags, links, byPackage, byProject, schema>>
    /\ byPath[q] = IF projects[k] = NoRow THEN NoId ELSE k
    /\ projects[k] # NoRow => projects[k].path = q
    /\ projects'[k] = [path   |-> q,
                       device |-> IF d = NoDevice /\ projects[k] # NoRow
                                  THEN projects[k].device ELSE d]
    /\ \A j \in Id \ {k} : projects'[j] = projects[j]

LEMMA InsertProjectRows ==
  ASSUME IInv, NEW q \in Path, NEW d \in Device \cup {NoDevice}, InsertProject(q, d)
  PROVE  \E k \in Id : ProjectWritten(q, d, k)
<1> USE RowFacts
<1>1. UNCHANGED <<packages, byName, tags, links, byPackage, byProject, schema>>
  BY DEF InsertProject
<1> DEFINE p == byPath[q]
<1>2. CASE p # NoId /\ projects[p] # NoRow
  <2>1. p \in Id /\ projects[p] \in Project /\ projects[p].path = q
    <3>1. p \in Id
      BY <1>2 DEF IInv, TypeOK
    <3>2. projects[p] \in Project
      BY <1>2, <3>1 DEF IInv, TypeOK
    <3> QED BY <3>1, <3>2 DEF IInv, Consistent, PathIndexExact
  <2>2. CASE d = NoDevice
    <3>1. projects[p] = [path |-> q, device |-> projects[p].device]
      BY <2>1 DEF Project
    <3>2. projects' = projects
      BY <1>2, <2>2 DEF InsertProject
    <3> QED BY <1>1, <1>2, <2>1, <2>2, <3>1, <3>2 DEF ProjectWritten
  <2>3. CASE d # NoDevice
    <3>1. [projects[p] EXCEPT !.device = d] = [path |-> q, device |-> d]
      BY <2>1 DEF Project
    <3>2. projects' = [projects EXCEPT ![p] = [projects[p] EXCEPT !.device = d]]
      BY <1>2, <2>3 DEF InsertProject
    <3>3. \A j \in Id : projects'[j] = IF j # p THEN projects[j]
                                      ELSE [path |-> q, device |-> d]
      BY <3>1, <3>2 DEF IInv, TypeOK
    <3> QED BY <1>1, <1>2, <2>1, <2>3, <3>3 DEF ProjectWritten
  <2> QED BY <2>2, <2>3
<1>3. CASE ~(p # NoId /\ projects[p] # NoRow)
  <2>1. /\ nextId \in Id
        /\ projects' = [projects EXCEPT ![nextId] = [path |-> q, device |-> d]]
    BY <1>3 DEF InsertProject
  <2>2. projects[nextId] = NoRow
    BY <2>1 DEF IInv, TypeOK, Consistent, IdsAreFresh
  <2>3. p = NoId
    BY <1>3 DEF IInv, TypeOK, Consistent, PathIndexExact
  <2>4. \A j \in Id : projects'[j] = IF j # nextId THEN projects[j]
                                    ELSE [path |-> q, device |-> d]
    BY <2>1 DEF IInv, TypeOK
  <2> QED BY <1>1, <2>1, <2>2, <2>3, <2>4 DEF ProjectWritten
<1> QED BY <1>2, <1>3

LEMMA DeleteProjectRows ==
  ASSUME IInv, NEW i \in Id, DeleteProject(i)
  PROVE  /\ projects[i] # NoRow /\ projects[i] \in Project
         /\ UNCHANGED <<packages, byName, tags, schema>>
         /\ \A j \in Id : projects'[j] = IF j = i THEN NoRow ELSE projects[j]
         /\ \A l \in Id : links'[l] = IF links[l] # NoRow /\ links[l].proj = i THEN NoRow
                                     ELSE links[l]
<1>1. /\ projects[i] # NoRow /\ projects[i] \in Project
      /\ UNCHANGED <<packages, byName, tags, schema>>
  BY DEF DeleteProject, IInv, TypeOK
<1>2. \A l \in Id : l \in {m \in byProject[i] : links[m] # NoRow}
                      <=> links[l] # NoRow /\ links[l].proj = i
  BY DEF IInv, Consistent, LinkIndexesExact
<1>3. \A j \in Id :
         /\ projects'[j] = IF j = i THEN NoRow ELSE projects[j]
         /\ links'[j] = IF j \in {m \in byProject[i] : links[m] # NoRow} THEN NoRow
                       ELSE links[j]
  BY DEF DeleteProject, IInv, TypeOK
<1> QED BY <1>1, <1>2, <1>3

LEMMA DeleteLinkRows ==
  ASSUME IInv, NEW p \in Id, NEW q \in Id, DeleteLink(p, q)
  PROVE  /\ UNCHANGED <<packages, byName, tags, projects, byPath, schema>>
         /\ \E d \in Id :
              /\ links[d] # NoRow
              /\ \A l \in Id : links'[l] = IF l = d THEN NoRow ELSE links[l]
  BY DEF DeleteLink, IInv, TypeOK

(* Row k links the project to the package, and was its row if it had one;  *)
(* a row of the project on another version is gone.                        *)
LinkWritten(p, q, t, pinned, k) ==
    /\ UNCHANGED <<packages, byName, tags, projects, byPath, schema>>
    /\ packages[p] # NoRow /\ projects[q] # NoRow
    /\ links[k] # NoRow => links[k].pkg = p /\ links[k].proj = q
    /\ links'[k] = [pkg |-> p, proj |-> q, tag |-> t, pinned |-> pinned]
    /\ \A l \in Id \ {k} :
          links'[l] = IF /\ links[l] # NoRow /\ links[l].proj = q
                         /\ packageName(links[l].pkg) = packageName(p) THEN NoRow
                      ELSE links[l]

LEMMA InsertLinkRows ==
  ASSUME IInv, NEW p \in Id, NEW q \in Id, NEW t \in Tag, NEW pinned \in BOOLEAN,
         InsertLink(p, q, t, pinned)
  PROVE  \E k \in Id : LinkWritten(p, q, t, pinned, k)
<1> DEFINE row      == [pkg |-> p, proj |-> q, tag |-> t, pinned |-> pinned]
           held     == {l \in byProject[q] : links[l] # NoRow}
           same     == {l \in held : links[l].pkg = p}
           replaced == {l \in held : /\ links[l].pkg # p
                                     /\ packageName(links[l].pkg) = packageName(p)}
           new      == IF same = {} THEN {nextId} ELSE {}
<1>1. /\ UNCHANGED <<packages, byName, tags, projects, byPath, schema>>
      /\ packages[p] # NoRow /\ projects[q] # NoRow
      /\ new \subseteq Id
      /\ \A l \in Id : links'[l] = IF l \in same \cup new THEN row
                                  ELSE IF l \in replaced THEN NoRow
                                  ELSE links[l]
  BY DEF InsertLink
<1>2. \A l \in Id : l \in held <=> links[l] # NoRow /\ links[l].proj = q
  BY DEF IInv, Consistent, LinkIndexesExact
<1>3. held \subseteq Id
  BY DEF IInv, TypeOK
<1>4. \A l \in Id : /\ l \in same <=> l \in held /\ links[l].pkg = p
                    /\ l \in replaced <=> /\ l \in held /\ links[l].pkg # p
                                          /\ packageName(links[l].pkg) = packageName(p)
  OBVIOUS
<1>5. same \subseteq held
  OBVIOUS
<1>6. ASSUME NEW k \in held, NEW l \in held,
             packageName(links[k].pkg) = packageName(links[l].pkg)
      PROVE  k = l
  <2>1. k \in Id /\ l \in Id
    BY <1>3
  <2>2. /\ links[k] # NoRow /\ links[k].proj = q
        /\ links[l] # NoRow /\ links[l].proj = q
    BY <1>2, <2>1
  <2> HIDE DEF held, same, replaced, new
  <2> QED BY <1>6, <2>1, <2>2 DEF IInv, Consistent, OneLinkPerName
<1>7. CASE same = {}
  <2>1. new = {nextId} /\ nextId \in Id
    BY <1>1, <1>7
  <2>2. links[nextId] = NoRow
    BY <2>1 DEF IInv, TypeOK, Consistent, IdsAreFresh
  <2> HIDE DEF held, same, replaced, new
  <2>3. \A l \in Id : l \in held => links[l].pkg # p
    BY <1>4, <1>7
  <2>4. \A l \in Id : links'[l] = IF l = nextId THEN row
                                 ELSE IF /\ links[l] # NoRow /\ links[l].proj = q
                                         /\ packageName(links[l].pkg) = packageName(p) THEN NoRow
                                 ELSE links[l]
    BY <1>1, <1>2, <1>4, <1>7, <2>1, <2>3
  <2> QED BY <1>1, <2>1, <2>2, <2>4 DEF LinkWritten
<1>8. CASE same # {}
  <2>1. new = {}
    BY <1>8
  <2>2. PICK k \in same : TRUE
    BY <1>8
  <2>3. k \in Id /\ k \in held /\ links[k].pkg = p
    BY <1>3, <2>2
  <2> HIDE DEF held, same, replaced, new
  <2>4. \A l \in Id : l \in same <=> l = k
    BY <1>4, <1>6, <2>2, <2>3
  <2>5. \A l \in Id : l # k => (l \in replaced <=>
                                  /\ links[l] # NoRow /\ links[l].proj = q
                                  /\ packageName(links[l].pkg) = packageName(p))
    BY <1>2, <1>4, <2>4
  <2>6. \A l \in Id : links'[l] = IF l = k THEN row
                                 ELSE IF /\ links[l] # NoRow /\ links[l].proj = q
                                         /\ packageName(links[l].pkg) = packageName(p) THEN NoRow
                                 ELSE links[l]
    BY <1>1, <2>1, <2>4, <2>5
  <2> QED BY <1>1, <1>2, <2>3, <2>6 DEF LinkWritten
<1> QED BY <1>7, <1>8

-----------------------------------------------------------------------------
(* Rows keep their identity.                                               *)

LEMMA TagMovesSameRow ==
  ASSUME IInv, NEW n \in Name, NEW t \in Tag, NEW h \in Hash, NEW id \in Id,
         TagMoves(n, t, h, id), NEW i \in Id
  PROVE  SameRow(i)
<1>1. /\ projects' = projects /\ packages'[id] = [name |-> n, hash |-> h]
      /\ \A j \in Id : packages[j] # NoRow => packages'[j] = packages[j]
  BY TagMovesRecords
<1>2. ASSUME links[i] # NoRow
      PROVE  /\ links'[i].proj = links[i].proj
             /\ packages'[links'[i].pkg].name = packages[links[i].pkg].name
  <2>1. /\ links[i] \in Link /\ links[i].pkg \in Id
        /\ packages[links[i].pkg] # NoRow
    BY <1>2, RowsPresent
  <2>2. CASE i \in Carried(n, Retagged(n, t), id)
    <3>1. links'[i] = [links[i] EXCEPT !.pkg = id]
      <4>1. Repointed(n, t, id, i)
        BY TagMovesLinks
      <4> QED BY <2>2, <4>1 DEF Repointed
    <3>2. links'[i].proj = links[i].proj /\ links'[i].pkg = id
      BY <2>1, <3>1 DEF Link
    <3>3. packages[links[i].pkg].name = n
      BY <2>2, CarriedRows
    <3> QED BY <1>1, <3>2, <3>3
  <2>3. CASE i \notin Carried(n, Retagged(n, t), id)
    <3>1. links'[i] = links[i]
      <4>1. Repointed(n, t, id, i)
        BY TagMovesLinks
      <4> QED BY <2>3, <4>1 DEF Repointed
    <3> QED BY <1>1, <2>1, <3>1
  <2> QED BY <2>2, <2>3
<1>3. packages[i] # NoRow /\ packages'[i] # NoRow => packages'[i] = packages[i]
  BY <1>1
<1> QED BY <1>1, <1>2, <1>3 DEF SameRow

LEMMA StepSameRow ==
  ASSUME IInv, [Next]_vars, NEW i \in Id
  PROVE  SameRow(i)
<1> USE RowFacts
<1>1. links[i] # NoRow => links[i].pkg \in Id /\ packages[links[i].pkg] # NoRow
  BY RowsPresent
<1>2. CASE Migrate
  BY <1>2 DEF Migrate, SameRow
<1>3. ASSUME NEW n \in Name, NEW h \in Hash, NEW t \in Tag,
             InsertPackageWithFilesTagged(n, h, t)
      PROVE  SameRow(i)
  BY <1>3, PublishMoves, TagMovesSameRow
<1>4. ASSUME NEW n \in Name, NEW h \in Hash, NEW t \in Tag, SetTag(n, t, h)
      PROVE  SameRow(i)
  BY <1>4, SetTagMoves, TagMovesSameRow
<1>5. ASSUME NEW n \in Name, NEW t \in Tag, DeleteTag(n, t)
      PROVE  SameRow(i)
  BY <1>5 DEF DeleteTag, SameRow
<1>6. ASSUME NEW j \in Id, DeletePackage(j)
      PROVE  SameRow(i)
  BY <1>1, <1>6, DeletePackageRows DEF SameRow
<1>7. ASSUME NEW q \in Path, NEW d \in Device \cup {NoDevice}, InsertProject(q, d)
      PROVE  SameRow(i)
  <2>1. PICK k \in Id : ProjectWritten(q, d, k)
    BY <1>7, InsertProjectRows
  <2> QED BY <2>1 DEF ProjectWritten, SameRow
<1>8. ASSUME NEW j \in Id, NEW d \in Device, SetProjectDevice(j, d)
      PROVE  SameRow(i)
  <2>1. projects'[i] = projects[i] \/ projects'[i] = [projects[i] EXCEPT !.device = d]
    BY <1>8 DEF SetProjectDevice, IInv, TypeOK
  <2>2. projects[i] # NoRow => projects[i] \in Project
    BY DEF IInv, TypeOK
  <2>3. projects[i] # NoRow => projects'[i].path = projects[i].path
    BY <2>1, <2>2 DEF Project
  <2> QED BY <1>8, <2>3 DEF SetProjectDevice, SameRow
<1>9. ASSUME NEW j \in Id, DeleteProject(j)
      PROVE  SameRow(i)
  BY <1>9, DeleteProjectRows DEF SameRow
<1>10. ASSUME NEW p \in Id, NEW q \in Id, NEW t \in Tag, NEW pinned \in BOOLEAN,
              InsertLink(p, q, t, pinned)
       PROVE  SameRow(i)
  <2>1. PICK k \in Id : LinkWritten(p, q, t, pinned, k)
    BY <1>10, InsertLinkRows
  <2>2. /\ packages' = packages /\ projects' = projects
        /\ links[k] # NoRow => links[k].pkg = p /\ links[k].proj = q
        /\ links'[k].pkg = p /\ links'[k].proj = q
        /\ \A l \in Id \ {k} : links'[l] = NoRow \/ links'[l] = links[l]
    BY <2>1 DEF LinkWritten
  <2>3. links[i] # NoRow /\ links'[i] # NoRow =>
           links'[i].pkg = links[i].pkg /\ links'[i].proj = links[i].proj
    BY <2>2
  <2> QED BY <2>2, <2>3 DEF SameRow
<1>11. ASSUME NEW p \in Id, NEW q \in Id, DeleteLink(p, q)
       PROVE  SameRow(i)
  BY <1>11, DeleteLinkRows DEF SameRow
<1>12. CASE UNCHANGED vars
  BY <1>12 DEF vars, SameRow
<1> QED
  BY <1>2, <1>3, <1>4, <1>5, <1>6, <1>7, <1>8, <1>9, <1>10, <1>11, <1>12 DEF Next

(* No transaction lands on a row that is in use: while a row is there its  *)
(* id names the same build, the same project, and a link of that project   *)
(* to that package, whatever the other methods do around it.               *)
THEOREM Identity == Spec => RowsKeepTheirIdentity
<1>1. Init => IInv
  BY InitType, InitConsistent DEF IInv
<1>2. IInv /\ [Next]_vars => [\A i \in Id : SameRow(i)]_vars
  BY StepSameRow
<1> QED BY <1>1, <1>2, NextConsistent, PTL DEF Spec, RowsKeepTheirIdentity

-----------------------------------------------------------------------------
(* Pins and followers.                                                     *)

LEMMA TagMovesPinHolds ==
  ASSUME IInv, NEW n \in Name, NEW t \in Tag, NEW h \in Hash, NEW id \in Id,
         TagMoves(n, t, h, id), NEW l \in Id
  PROVE  PinHolds(l)
<1>1. links[l].pinned => l \notin Carried(n, Retagged(n, t), id)
  BY DEF Carried
<1>2. Repointed(n, t, id, l)
  BY TagMovesLinks
<1>3. links[l].pinned => links'[l] = links[l]
  BY <1>1, <1>2 DEF Repointed
<1> QED BY <1>3 DEF PinHolds

LEMMA StepPinHolds ==
  ASSUME IInv, [Next]_vars, NEW l \in Id
  PROVE  PinHolds(l)
<1> USE RowFacts
<1>1. links[l] # NoRow => links[l].pkg \in Id /\ packages[links[l].pkg] # NoRow
  BY RowsPresent
<1>2. CASE Migrate
  BY <1>2 DEF Migrate, PinHolds
<1>3. ASSUME NEW n \in Name, NEW h \in Hash, NEW t \in Tag,
             InsertPackageWithFilesTagged(n, h, t)
      PROVE  PinHolds(l)
  BY <1>3, PublishMoves, TagMovesPinHolds
<1>4. ASSUME NEW n \in Name, NEW h \in Hash, NEW t \in Tag, SetTag(n, t, h)
      PROVE  PinHolds(l)
  BY <1>4, SetTagMoves, TagMovesPinHolds
<1>5. ASSUME NEW n \in Name, NEW t \in Tag, DeleteTag(n, t)
      PROVE  PinHolds(l)
  BY <1>5 DEF DeleteTag, PinHolds
<1>6. ASSUME NEW j \in Id, DeletePackage(j)
      PROVE  PinHolds(l)
  BY <1>1, <1>6, DeletePackageRows DEF PinHolds
<1>7. ASSUME NEW q \in Path, NEW d \in Device \cup {NoDevice}, InsertProject(q, d)
      PROVE  PinHolds(l)
  BY <1>7 DEF InsertProject, PinHolds
<1>8. ASSUME NEW j \in Id, NEW d \in Device, SetProjectDevice(j, d)
      PROVE  PinHolds(l)
  BY <1>8 DEF SetProjectDevice, PinHolds
<1>9. ASSUME NEW j \in Id, DeleteProject(j)
      PROVE  PinHolds(l)
  BY <1>9, DeleteProjectRows DEF PinHolds
<1>10. ASSUME NEW p \in Id, NEW q \in Id, NEW t \in Tag, NEW pinned \in BOOLEAN,
              InsertLink(p, q, t, pinned)
       PROVE  PinHolds(l)
  <2>1. PICK k \in Id : LinkWritten(p, q, t, pinned, k)
    BY <1>10, InsertLinkRows
  <2>2. /\ tags' = tags
        /\ links[k] # NoRow => links[k].pkg = p
        /\ links'[k].pkg = p
        /\ \A m \in Id \ {k} : links'[m] = NoRow \/ links'[m] = links[m]
    BY <2>1 DEF LinkWritten
  <2> QED BY <2>2 DEF PinHolds
<1>11. ASSUME NEW p \in Id, NEW q \in Id, DeleteLink(p, q)
       PROVE  PinHolds(l)
  BY <1>11, DeleteLinkRows DEF PinHolds
<1>12. CASE UNCHANGED vars
  BY <1>12 DEF vars, PinHolds
<1> QED
  BY <1>2, <1>3, <1>4, <1>5, <1>6, <1>7, <1>8, <1>9, <1>10, <1>11, <1>12 DEF Next

(* While its row lives a pinned link stays on the build the user chose,    *)
(* and a tag operation that spares the build leaves the row as it is.      *)
THEOREM PinsHold == Spec => PinnedLinksStayPut
<1>1. Init => IInv
  BY InitType, InitConsistent DEF IInv
<1>2. IInv /\ [Next]_vars => [\A l \in Id : PinHolds(l)]_vars
  BY StepPinHolds
<1> QED BY <1>1, <1>2, NextConsistent, PTL DEF Spec, PinnedLinksStayPut

LEMMA TagMovesCarries ==
  ASSUME IInv, IInv', NEW n \in Name, NEW t \in Tag, NEW h \in Hash, NEW id \in Id,
         TagMoves(n, t, h, id), NEW m \in Name, NEW u \in Tag
  PROVE  CarriedWithTag(m, u)
<1> DEFINE from == findPackageByHash(m, tags[m][u])
           build == [name |-> n, hash |-> h]
<1> SUFFICES ASSUME tags[m][u] # NoRow, tags'[m][u] # NoRow, tags'[m][u] # tags[m][u],
                    NEW l \in Id, links[l] # NoRow, links[l].pkg = from,
                    links[l].tag = u, ~links[l].pinned
             PROVE  links'[l] = [links[l] EXCEPT !.pkg = findPackageByHash(m, tags[m][u])']
  BY DEF CarriedWithTag
<1>1. m = n /\ u \in Retagged(n, t) /\ tags'[m][u] = h
  BY TagMovesTags
<1>2. links[l].pkg \in Id /\ packages[links[l].pkg] # NoRow
  BY RowsPresent
<1>3. packages[links[l].pkg] = [name |-> n, hash |-> tags[n][u]]
  BY <1>1, <1>2, FindPackage, RowFacts
<1>4. links[l].pkg # id
  <2>1. [name |-> n, hash |-> tags[n][u]] # build
    BY <1>1
  <2> QED BY <1>2, <1>3, <2>1 DEF TagMoves
<1>5. l \in Carried(n, Retagged(n, t), id)
  BY <1>1, <1>3, <1>4, CarriedExactly
<1>6. links'[l] = [links[l] EXCEPT !.pkg = id]
  <2>1. Repointed(n, t, id, l)
    BY TagMovesLinks
  <2> QED BY <1>5, <2>1 DEF Repointed
<1>7. findPackageByHash(m, tags[m][u])' = id
  <2>1. packages'[id] = build /\ build # NoRow
    BY TagMovesRecords, RowFacts DEF Package
  <2>2. \A i \in Id : packages'[i] = build <=> i = id
    BY <2>1 DEF IInv, Consistent, RecordsDistinct
  <2>3. {i \in Id : packages'[i] = build} = {id}
    BY <2>2
  <2> QED BY <1>1, <2>3 DEF findPackageByHash
<1> QED BY <1>6, <1>7

LEMMA StepCarries ==
  ASSUME IInv, [Next]_vars, schema = Current, NEW m \in Name, NEW u \in Tag
  PROVE  CarriedWithTag(m, u)
<1> USE RowFacts
<1>a. IInv'
  BY NextConsistent
<1>1. ASSUME tags'[m][u] = tags[m][u] \/ tags'[m][u] = NoRow
      PROVE  CarriedWithTag(m, u)
  BY <1>1 DEF CarriedWithTag
<1>2. CASE Migrate
  BY <1>2 DEF Migrate
<1>3. ASSUME NEW n \in Name, NEW h \in Hash, NEW t \in Tag,
             InsertPackageWithFilesTagged(n, h, t)
      PROVE  CarriedWithTag(m, u)
  BY <1>a, <1>3, PublishMoves, TagMovesCarries
<1>4. ASSUME NEW n \in Name, NEW h \in Hash, NEW t \in Tag, SetTag(n, t, h)
      PROVE  CarriedWithTag(m, u)
  BY <1>a, <1>4, SetTagMoves, TagMovesCarries
<1>5. ASSUME NEW n \in Name, NEW t \in Tag, DeleteTag(n, t)
      PROVE  CarriedWithTag(m, u)
  BY <1>1, <1>5 DEF DeleteTag, IInv, TypeOK
<1>6. ASSUME NEW j \in Id, DeletePackage(j)
      PROVE  CarriedWithTag(m, u)
  BY <1>1, <1>6, DeletePackageRows
<1>7. ASSUME NEW q \in Path, NEW d \in Device \cup {NoDevice}, InsertProject(q, d)
      PROVE  CarriedWithTag(m, u)
  BY <1>1, <1>7 DEF InsertProject
<1>8. ASSUME NEW j \in Id, NEW d \in Device, SetProjectDevice(j, d)
      PROVE  CarriedWithTag(m, u)
  BY <1>1, <1>8 DEF SetProjectDevice
<1>9. ASSUME NEW j \in Id, DeleteProject(j)
      PROVE  CarriedWithTag(m, u)
  BY <1>1, <1>9, DeleteProjectRows
<1>10. ASSUME NEW p \in Id, NEW q \in Id, NEW t \in Tag, NEW pinned \in BOOLEAN,
              InsertLink(p, q, t, pinned)
       PROVE  CarriedWithTag(m, u)
  BY <1>1, <1>10 DEF InsertLink
<1>11. ASSUME NEW p \in Id, NEW q \in Id, DeleteLink(p, q)
       PROVE  CarriedWithTag(m, u)
  BY <1>1, <1>11, DeleteLinkRows
<1>12. CASE UNCHANGED vars
  BY <1>1, <1>12 DEF vars
<1> QED
  BY <1>2, <1>3, <1>4, <1>5, <1>6, <1>7, <1>8, <1>9, <1>10, <1>11, <1>12 DEF Next

(* A channel that moves takes with it every project that follows it and is *)
(* on the build it named, and takes it to the build it names now.          *)
THEOREM FollowersFollow == Spec => FollowersCarried
<1>1. Init => IInv
  BY InitType, InitConsistent DEF IInv
<1>2. IInv /\ [Next]_vars =>
         [schema = Current => \A n \in Name, t \in Tag : CarriedWithTag(n, t)]_vars
  BY StepCarries
<1> QED BY <1>1, <1>2, NextConsistent, PTL DEF Spec, FollowersCarried

-----------------------------------------------------------------------------
(* Devices.                                                                *)

Remembered(i) ==
    projects[i] # NoRow /\ projects'[i] # NoRow /\ projects[i].device # NoDevice
        => projects'[i].device # NoDevice

LEMMA StepRemembered ==
  ASSUME IInv, [Next]_vars, NEW i \in Id
  PROVE  Remembered(i)
<1> USE RowFacts
<1>1. CASE projects' = projects
  BY <1>1 DEF Remembered
<1>2. ASSUME NEW q \in Path, NEW d \in Device \cup {NoDevice}, InsertProject(q, d)
      PROVE  Remembered(i)
  <2>1. PICK k \in Id : ProjectWritten(q, d, k)
    BY <1>2, InsertProjectRows
  <2> QED BY <2>1 DEF ProjectWritten, Remembered
<1>3. ASSUME NEW j \in Id, NEW d \in Device, SetProjectDevice(j, d)
      PROVE  Remembered(i)
  <2>1. projects'[i] = projects[i] \/ projects'[i] = [projects[i] EXCEPT !.device = d]
    BY <1>3 DEF SetProjectDevice, IInv, TypeOK
  <2>2. projects[i] # NoRow => projects[i] \in Project
    BY DEF IInv, TypeOK
  <2>3. d # NoDevice
    BY DBAssumption
  <2> QED BY <2>1, <2>2, <2>3 DEF Remembered, Project
<1>4. ASSUME NEW j \in Id, DeleteProject(j)
      PROVE  Remembered(i)
  BY <1>4, DeleteProjectRows DEF Remembered
<1> QED
  BY <1>1, <1>2, <1>3, <1>4
     DEF Next, vars, Migrate, InsertPackageWithFilesTagged, SetTag, DeleteTag,
         DeletePackage, InsertLink, DeleteLink

(* A device that was once observed for a project is not forgotten while    *)
(* the project is recorded.                                                *)
THEOREM DevicesKept == Spec => DeviceRemembered
<1>1. Init => IInv
  BY InitType, InitConsistent DEF IInv
<1>2. IInv /\ [Next]_vars => [\A i \in Id : Remembered(i)]_vars
  BY StepRemembered
<1> QED BY <1>1, <1>2, NextConsistent, PTL DEF Spec, DeviceRemembered, Remembered

----------------------------------------------------------------------------
(***************************************************************************)
(* The database implements the registry: what the lookups of LnpmDB answer *)
(* changes only as the methods of LnpmRegistry say it may.                 *)
(***************************************************************************)

(* No record is the absent value.                                          *)
LEMMA Absent ==
    /\ NoRow \notin Hash /\ NoRow \notin Device \cup {NoDevice}
    /\ \A h \in Hash, t \in Tag, b \in BOOLEAN : [hash |-> h, tag |-> t, pinned |-> b] # NoRow
    /\ \A n \in Name, h \in Hash : [name |-> n, hash |-> h] # NoRow
  BY DBAssumption DEF Package

-----------------------------------------------------------------------------
(* What the lookups answer, in terms of the rows.                          *)

LEMMA StoredRows ==
  IInv => storedBuilds =
            {b \in Name \X Hash : \E i \in Id : packages[i] = [name |-> b[1], hash |-> b[2]]}
<1> SUFFICES ASSUME IInv, NEW n \in Name, NEW h \in Hash
             PROVE  GetPackageByHash(n, h) # NoRow
                       <=> \E i \in Id : packages[i] = [name |-> n, hash |-> h]
  BY DEF storedBuilds
<1>1. CASE findPackageByHash(n, h) = NoId
  BY <1>1, FindPackage DEF GetPackageByHash
<1>2. CASE findPackageByHash(n, h) # NoId
  <2>1. /\ findPackageByHash(n, h) \in Id
        /\ packages[findPackageByHash(n, h)] = [name |-> n, hash |-> h]
    BY <1>2, FindPackage
  <2>2. GetPackageByHash(n, h) = [name |-> n, hash |-> h]
    BY <1>2, <2>1 DEF GetPackageByHash
  <2> QED BY <2>1, <2>2, Absent
<1> QED BY <1>1, <1>2

(* Once the schema is current every lookup of a channel answers its tag.   *)
LEMMA ChannelIsTags == IInv /\ schema = Current => channelMap = tags
<1> SUFFICES ASSUME IInv, schema = Current, NEW n \in Name, NEW t \in Tag
             PROVE  HashOf(IF t = Latest THEN GetPackageByName(n) ELSE ResolveTag(n, t))
                       = tags[n][t]
  BY DEF channelMap, IInv, TypeOK
<1>1. CASE t = Latest
  <2>1. CASE byName[n] = NoId
    BY <1>1, <2>1 DEF IInv, Consistent, NameIndexIsLatest, GetPackageByName, HashOf
  <2>2. CASE byName[n] # NoId
    BY <1>1, <2>2 DEF IInv, Consistent, NameIndexIsLatest, GetPackageByName, HashOf
  <2> QED BY <2>1, <2>2
<1>2. CASE t # Latest
  <2>1. CASE tags[n][t] = NoRow
    BY <1>2, <2>1 DEF ResolveTag, HashOf
  <2>2. CASE tags[n][t] # NoRow
    <3>1. PICK i \in Id : packages[i] = [name |-> n, hash |-> tags[n][t]]
      BY <2>2 DEF IInv, Consistent, TagsNameStoredBuilds
    <3>2. tags[n][t] \in Hash
      BY <2>2 DEF IInv, TypeOK
    <3>3. packages[i] # NoRow
      BY <3>1, <3>2, Absent
    <3>4. findPackageByHash(n, tags[n][t]) = i /\ i # NoId
      BY <3>1, <3>3, FindRecord, RowFacts
    <3>5. ResolveTag(n, t) = packages[i]
      BY <2>2, <3>4 DEF ResolveTag, GetPackageByHash
    <3> QED BY <1>2, <3>1, <3>3, <3>5 DEF HashOf
  <2> QED BY <2>1, <2>2
<1> QED BY <1>1, <1>2

LEMMA ProjectRow ==
  IInv => /\ \A i \in Id : projects[i] # NoRow =>
                projectMap[projects[i].path] = projects[i].device
          /\ \A q \in Path :
                (\A i \in Id : projects[i] = NoRow \/ projects[i].path # q)
                   => projectMap[q] = NoRow
<1> SUFFICES ASSUME IInv
             PROVE  /\ \A i \in Id : projects[i] # NoRow =>
                          projectMap[projects[i].path] = projects[i].device
                    /\ \A q \in Path :
                          (\A i \in Id : projects[i] = NoRow \/ projects[i].path # q)
                             => projectMap[q] = NoRow
  OBVIOUS
<1>1. ASSUME NEW i \in Id, projects[i] # NoRow
      PROVE  projectMap[projects[i].path] = projects[i].device
  <2>1. projects[i].path \in Path
    BY <1>1 DEF IInv, TypeOK, Project
  <2>2. byPath[projects[i].path] = i /\ i # NoId
    BY <1>1, <2>1, RowFacts DEF IInv, Consistent, PathIndexExact
  <2> QED BY <1>1, <2>1, <2>2 DEF projectMap, GetProjectByPath
<1>2. ASSUME NEW q \in Path, \A i \in Id : projects[i] = NoRow \/ projects[i].path # q
      PROVE  projectMap[q] = NoRow
  <2>1. byPath[q] = NoId
    BY <1>2 DEF IInv, TypeOK, Consistent, PathIndexExact
  <2> QED BY <2>1 DEF projectMap, GetProjectByPath
<1> QED BY <1>1, <1>2

(* Row l is the link of project q to a build of package n.                 *)
Row(l, q, n) ==
    /\ links[l] # NoRow
    /\ projects[links[l].proj].path = q
    /\ packages[links[l].pkg].name = n

LEMMA RowsOfExact ==
  ASSUME IInv, NEW q \in Path, NEW n \in Name
  PROVE  /\ RowsOf(q, n) \subseteq Id
         /\ \A l \in Id : l \in RowsOf(q, n) <=> Row(l, q, n)
         /\ \A l, m \in Id : Row(l, q, n) /\ Row(m, q, n) => l = m
<1>1. \A l \in Id : links[l] # NoRow =>
         /\ links[l].proj \in Id /\ projects[links[l].proj] # NoRow
         /\ links[l].pkg \in Id /\ packages[links[l].pkg] # NoRow
  BY RowsPresent
<1>2. \A l \in Id : links[l] # NoRow =>
         (projects[links[l].proj].path = q <=> byPath[q] = links[l].proj)
  BY <1>1 DEF IInv, Consistent, PathIndexExact
<1>3. byPath[q] = NoId \/ byPath[q] \in Id
  BY DEF IInv, TypeOK
<1>4. RowsOf(q, n) \subseteq Id
  BY <1>3 DEF RowsOf, GetLinksForProject, IInv, TypeOK
<1>5. ASSUME NEW l \in Id
      PROVE  l \in RowsOf(q, n) <=> Row(l, q, n)
  <2>1. CASE byPath[q] = NoId
    BY <1>1, <1>2, <2>1, RowFacts DEF RowsOf, GetLinksForProject, Row
  <2>2. CASE byPath[q] \in Id
    <3>1. l \in byProject[byPath[q]] <=> links[l] # NoRow /\ links[l].proj = byPath[q]
      BY <2>2 DEF IInv, Consistent, LinkIndexesExact
    <3> QED BY <1>2, <2>2, <3>1, RowFacts DEF RowsOf, GetLinksForProject, BuildOf, Row
  <2> QED BY <1>3, <2>1, <2>2
<1>6. ASSUME NEW l \in Id, NEW m \in Id, Row(l, q, n), Row(m, q, n)
      PROVE  l = m
  <2>1. /\ links[l] # NoRow /\ links[m] # NoRow /\ links[l].proj = links[m].proj
    BY <1>2, <1>6 DEF Row
  <2>2. packageName(links[l].pkg) = packageName(links[m].pkg)
    BY <1>1, <1>6 DEF Row, packageName
  <2> QED BY <2>1, <2>2 DEF IInv, Consistent, OneLinkPerName
<1> QED BY <1>4, <1>5, <1>6

LEMMA ConsumesRow ==
  IInv => \A q \in Path, n \in Name :
            /\ \A l \in Id : Row(l, q, n) =>
                  /\ consumesMap[q][n] = Consumed(l)
                  /\ Consumed(l) # NoRow
            /\ (\A l \in Id : ~Row(l, q, n)) => consumesMap[q][n] = NoRow
<1> SUFFICES ASSUME IInv, NEW q \in Path, NEW n \in Name
             PROVE  /\ \A l \in Id : Row(l, q, n) =>
                          /\ consumesMap[q][n] = Consumed(l)
                          /\ Consumed(l) # NoRow
                    /\ (\A l \in Id : ~Row(l, q, n)) => consumesMap[q][n] = NoRow
  OBVIOUS
<1>1. consumesMap[q][n] = IF RowsOf(q, n) = {} THEN NoRow
                          ELSE Consumed(CHOOSE l \in RowsOf(q, n) : TRUE)
  BY DEF consumesMap
<1>2. ASSUME NEW l \in Id, Row(l, q, n)
      PROVE  consumesMap[q][n] = Consumed(l) /\ Consumed(l) # NoRow
  <2>1. RowsOf(q, n) = {l}
    BY <1>2, RowsOfExact
  <2>2. consumesMap[q][n] = Consumed(l)
    BY <1>1, <2>1
  <2>3. /\ links[l].tag \in Tag /\ links[l].pinned \in BOOLEAN
        /\ packages[links[l].pkg].hash \in Hash
    BY <1>2, RowsPresent DEF Row, Package
  <2> QED BY <2>2, <2>3, Absent DEF Consumed, BuildOf
<1>3. ASSUME \A l \in Id : ~Row(l, q, n)
      PROVE  consumesMap[q][n] = NoRow
  <2>1. RowsOf(q, n) = {}
    BY <1>3, RowsOfExact
  <2> QED BY <1>1, <2>1
<1> QED BY <1>2, <1>3

(* The lookups in terms of the rows, before a step and after it.           *)
StoredLookup ==
    storedBuilds =
      {b \in Name \X Hash : \E i \in Id : packages[i] = [name |-> b[1], hash |-> b[2]]}

ChannelLookup == schema = Current => channelMap = tags

ProjectLookup ==
    /\ \A i \in Id : projects[i] # NoRow =>
          projectMap[projects[i].path] = projects[i].device
    /\ \A q \in Path :
          (\A i \in Id : projects[i] = NoRow \/ projects[i].path # q)
             => projectMap[q] = NoRow

ConsumesLookup ==
    \A q \in Path, n \in Name :
       /\ \A l \in Id : Row(l, q, n) => /\ consumesMap[q][n] = Consumed(l)
                                        /\ Consumed(l) # NoRow
       /\ (\A l \in Id : ~Row(l, q, n)) => consumesMap[q][n] = NoRow

LookupTypes ==
    /\ projectMap \in [Path -> Device \cup {NoDevice, NoRow}]
    /\ consumesMap \in [Path -> [Name -> [hash : Hash, tag : Tag, pinned : BOOLEAN] \cup {NoRow}]]

LEMMA LookupsTyped == IInv => LookupTypes
<1> SUFFICES ASSUME IInv PROVE LookupTypes
  OBVIOUS
<1>1. ASSUME NEW q \in Path
      PROVE  projectMap[q] \in Device \cup {NoDevice, NoRow}
  <2>1. byPath[q] = NoId \/ byPath[q] \in Id
    BY DEF IInv, TypeOK
  <2>2. byPath[q] \in Id => projects[byPath[q]] \in Project \cup {NoRow}
    BY DEF IInv, TypeOK
  <2> QED BY <2>1, <2>2 DEF projectMap, GetProjectByPath, Project
<1>2. ASSUME NEW q \in Path, NEW n \in Name
      PROVE  consumesMap[q][n] \in [hash : Hash, tag : Tag, pinned : BOOLEAN] \cup {NoRow}
  <2>1. CASE \E l \in Id : Row(l, q, n)
    <3>1. PICK l \in Id : Row(l, q, n)
      BY <2>1
    <3>2. consumesMap[q][n] = Consumed(l)
      BY <3>1, ConsumesRow
    <3>3. /\ links[l].tag \in Tag /\ links[l].pinned \in BOOLEAN
          /\ packages[links[l].pkg].hash \in Hash
      BY <3>1, RowsPresent DEF Row, Package
    <3> QED BY <3>2, <3>3 DEF Consumed, BuildOf
  <2>2. CASE ~\E l \in Id : Row(l, q, n)
    BY <2>2, ConsumesRow
  <2> QED BY <2>1, <2>2
<1>3. projectMap = [q \in Path |-> projectMap[q]]
  BY DEF projectMap
<1>4. consumesMap = [q \in Path |-> [n \in Name |-> consumesMap[q][n]]]
  BY DEF consumesMap
<1>5. projectMap \in [Path -> Device \cup {NoDevice, NoRow}]
  BY <1>1, <1>3
<1>6. consumesMap \in [Path -> [Name -> [hash : Hash, tag : Tag, pinned : BOOLEAN] \cup {NoRow}]]
  BY <1>2, <1>4
<1> QED BY <1>5, <1>6 DEF LookupTypes

LEMMA Lookups ==
  IInv => StoredLookup /\ ChannelLookup /\ ProjectLookup /\ ConsumesLookup /\ LookupTypes
  BY StoredRows, ChannelIsTags, ProjectRow, ConsumesRow, LookupsTyped
     DEF StoredLookup, ChannelLookup, ProjectLookup, ConsumesLookup

LEMMA LookupsAfter ==
  IInv' => /\ StoredLookup' /\ ChannelLookup' /\ ProjectLookup' /\ ConsumesLookup'
           /\ LookupTypes'
  BY Lookups, PTL

(* A step that leaves the rows of links and what they name alone changes   *)
(* nothing anyone consumes.                                                *)
SameRead(l) ==
    /\ links'[l] = links[l]
    /\ links[l] # NoRow => /\ packages'[links[l].pkg] = packages[links[l].pkg]
                           /\ projects'[links[l].proj].path = projects[links[l].proj].path

LEMMA SameReadRow ==
  ASSUME NEW l \in Id, SameRead(l), NEW q, NEW n
  PROVE  /\ Row(l, q, n)' <=> Row(l, q, n)
         /\ Row(l, q, n) => Consumed(l)' = Consumed(l)
  BY DEF SameRead, Row, Consumed, BuildOf

LEMMA SameConsumption ==
  ASSUME IInv, IInv', NEW q \in Path, NEW n \in Name,
         \A l \in Id : SameRead(l) \/ (~Row(l, q, n) /\ ~Row(l, q, n)')
  PROVE  consumesMap'[q][n] = consumesMap[q][n]
<1>1. CASE \E l \in Id : Row(l, q, n)
  <2>1. PICK l \in Id : Row(l, q, n)
    BY <1>1
  <2>2. SameRead(l)
    BY <2>1
  <2>3. Row(l, q, n)' /\ Consumed(l)' = Consumed(l)
    BY <2>1, <2>2, SameReadRow
  <2>4. consumesMap[q][n] = Consumed(l)
    BY <2>1, Lookups DEF ConsumesLookup
  <2>5. consumesMap'[q][n] = Consumed(l)'
    BY <2>3, LookupsAfter DEF ConsumesLookup
  <2> QED BY <2>3, <2>4, <2>5
<1>2. CASE \A l \in Id : ~Row(l, q, n)
  <2>1. \A l \in Id : ~Row(l, q, n)'
    BY <1>2, SameReadRow
  <2>2. consumesMap[q][n] = NoRow
    BY <1>2, Lookups DEF ConsumesLookup
  <2>3. consumesMap'[q][n] = NoRow
    BY <2>1, LookupsAfter DEF ConsumesLookup
  <2> QED BY <2>2, <2>3
<1> QED BY <1>1, <1>2

-----------------------------------------------------------------------------
(* Publishing and setting a tag move a channel of the registry.            *)

LEMMA MovedIsRetagged ==
  ASSUME IInv, schema = Current, NEW n \in Name, NEW t \in Tag
  PROVE  Registry!Moved(n, t) = Retagged(n, t)
<1>1. channelMap = tags
  BY Lookups DEF ChannelLookup
<1>2. byName[n] = NoId <=> tags[n][Latest] = NoRow
  <2>1. CASE byName[n] = NoId
    BY <2>1 DEF IInv, Consistent, NameIndexIsLatest
  <2>2. CASE byName[n] # NoId
    <3>1. /\ packages[byName[n]] # NoRow /\ tags[n][Latest] = packages[byName[n]].hash
      BY <2>2 DEF IInv, Consistent, NameIndexIsLatest
    <3>2. packages[byName[n]].hash \in Hash
      BY <2>2, <3>1 DEF IInv, TypeOK, Package
    <3> QED BY <2>2, <3>1, <3>2, Absent
  <2> QED BY <2>1, <2>2
<1> QED BY <1>1, <1>2 DEF Registry!Moved, Retagged

LEMMA TagMovesConsumption ==
  ASSUME IInv, IInv', NEW n \in Name, NEW t \in Tag, NEW h \in Hash, NEW id \in Id,
         TagMoves(n, t, h, id), NEW q \in Path
  PROVE  consumesMap'[q][n] =
            IF Registry!Follows(consumesMap[q][n], n, Retagged(n, t))
            THEN [consumesMap[q][n] EXCEPT !.hash = h] ELSE consumesMap[q][n]
<1> DEFINE ts == Retagged(n, t)
<1>1. channelMap = tags
  BY Lookups DEF ChannelLookup, TagMoves
<1>2. /\ projects' = projects /\ packages'[id] = [name |-> n, hash |-> h]
      /\ \A j \in Id : packages[j] # NoRow => packages'[j] = packages[j]
  BY TagMovesRecords
<1>3. \A l \in Id : links[l] # NoRow =>
         /\ links[l] \in Link /\ links[l].pkg \in Id
         /\ packages[links[l].pkg] # NoRow /\ packages[links[l].pkg] \in Package
  BY RowsPresent
<1>4. ASSUME NEW l \in Id, l \in Carried(n, ts, id), Row(l, q, n)
      PROVE  consumesMap'[q][n] =
                IF Registry!Follows(consumesMap[q][n], n, ts)
                THEN [consumesMap[q][n] EXCEPT !.hash = h] ELSE consumesMap[q][n]
  <2>1. links'[l] = [links[l] EXCEPT !.pkg = id]
    <3>1. Repointed(n, t, id, l)
      BY TagMovesLinks
    <3> QED BY <1>4, <3>1 DEF Repointed
  <2>2. links[l] \in Link /\ links[l] # NoRow
    BY <1>3, <1>4 DEF Row
  <2>3. /\ links'[l].pkg = id /\ links'[l].proj = links[l].proj
        /\ links'[l].tag = links[l].tag /\ links'[l].pinned = links[l].pinned
    BY <2>1, <2>2 DEF Link
  <2>4. links'[l] # NoRow
    BY <2>1, <2>2, RowFacts DEF Link
  <2>5. Row(l, q, n)'
    BY <1>2, <1>4, <2>3, <2>4 DEF Row
  <2>6. /\ consumesMap[q][n] = Consumed(l) /\ Consumed(l) # NoRow
    BY <1>4, Lookups DEF ConsumesLookup
  <2>7. consumesMap'[q][n] = Consumed(l)'
    BY <2>5, LookupsAfter DEF ConsumesLookup
  <2>8. Consumed(l)' = [Consumed(l) EXCEPT !.hash = h]
    BY <1>2, <2>3 DEF Consumed, BuildOf
  <2>9. /\ ~links[l].pinned /\ links[l].tag \in ts
        /\ packages[links[l].pkg] = [name |-> n, hash |-> tags[n][links[l].tag]]
    BY <1>4, CarriedExactly
  <2>10. Registry!Follows(Consumed(l), n, ts)
    BY <1>1, <2>6, <2>9 DEF Registry!Follows, Consumed, BuildOf
  <2> QED BY <2>6, <2>7, <2>8, <2>10
<1>5. ASSUME NEW l \in Id, l \notin Carried(n, ts, id), Row(l, q, n)
      PROVE  consumesMap'[q][n] =
                IF Registry!Follows(consumesMap[q][n], n, ts)
                THEN [consumesMap[q][n] EXCEPT !.hash = h] ELSE consumesMap[q][n]
  <2>1. links'[l] = links[l]
    <3>1. Repointed(n, t, id, l)
      BY TagMovesLinks
    <3> QED BY <1>5, <3>1 DEF Repointed
  <2>2. SameRead(l)
    BY <1>2, <1>3, <2>1 DEF SameRead
  <2>3. Row(l, q, n)' /\ Consumed(l)' = Consumed(l)
    BY <1>5, <2>2, SameReadRow
  <2>4. /\ consumesMap[q][n] = Consumed(l) /\ Consumed(l) # NoRow
    BY <1>5, Lookups DEF ConsumesLookup
  <2>5. consumesMap'[q][n] = Consumed(l)'
    BY <2>3, LookupsAfter DEF ConsumesLookup
  <2>6. ASSUME Registry!Follows(Consumed(l), n, ts)
        PROVE  Consumed(l).hash = h
    <3>1. /\ links[l] # NoRow /\ ~links[l].pinned /\ links[l].tag \in ts
          /\ packages[links[l].pkg].hash = tags[n][links[l].tag]
          /\ packages[links[l].pkg].name = n
      BY <1>1, <1>5, <2>6 DEF Registry!Follows, Consumed, BuildOf, Row
    <3>2. packages[links[l].pkg] = [name |-> n, hash |-> tags[n][links[l].tag]]
      BY <1>3, <3>1 DEF Package
    <3>3. links[l].pkg = id
      BY <1>5, <3>1, <3>2, CarriedExactly
    <3>4. packages[id] = [name |-> n, hash |-> h]
      BY <1>3, <3>1, <3>3 DEF TagMoves
    <3> QED BY <3>3, <3>4 DEF Consumed, BuildOf
  <2>7. [Consumed(l) EXCEPT !.hash = Consumed(l).hash] = Consumed(l)
    BY DEF Consumed
  <2> QED BY <2>3, <2>4, <2>5, <2>6, <2>7
<1>6. ASSUME \A l \in Id : ~Row(l, q, n)
      PROVE  consumesMap'[q][n] =
                IF Registry!Follows(consumesMap[q][n], n, ts)
                THEN [consumesMap[q][n] EXCEPT !.hash = h] ELSE consumesMap[q][n]
  <2>1. consumesMap[q][n] = NoRow
    BY <1>6, Lookups DEF ConsumesLookup
  <2>2. ASSUME NEW l \in Id
        PROVE  ~Row(l, q, n)'
    <3>1. SameRow(l)
      BY TagMovesSameRow
    <3>2. links[l] = NoRow => links'[l] = NoRow
      <4>1. Repointed(n, t, id, l)
        BY TagMovesLinks
      <4> QED BY <4>1 DEF Repointed, Carried
    <3> QED BY <1>2, <1>6, <3>1, <3>2 DEF SameRow, Row
  <2>3. consumesMap'[q][n] = NoRow
    BY <2>2, LookupsAfter DEF ConsumesLookup
  <2> QED BY <2>1, <2>3 DEF Registry!Follows
<1> HIDE DEF ts
<1> QED BY <1>4, <1>5, <1>6 DEF ts

(* A package whose tag did not move is consumed as it was.                 *)
LEMMA TagMovesOthers ==
  ASSUME IInv, IInv', NEW n \in Name, NEW t \in Tag, NEW h \in Hash, NEW id \in Id,
         TagMoves(n, t, h, id), NEW q \in Path, NEW m \in Name, m # n
  PROVE  consumesMap'[q][m] = consumesMap[q][m]
<1>1. /\ projects' = projects
      /\ \A j \in Id : packages[j] # NoRow => packages'[j] = packages[j]
  BY TagMovesRecords
<1>2. ASSUME NEW l \in Id
      PROVE  SameRead(l) \/ (~Row(l, q, m) /\ ~Row(l, q, m)')
  <2>1. Repointed(n, t, id, l)
    BY TagMovesLinks
  <2>2. CASE l \notin Carried(n, Retagged(n, t), id)
    <3>1. links'[l] = links[l]
      BY <2>1, <2>2 DEF Repointed
    <3>2. links[l] # NoRow => packages'[links[l].pkg] = packages[links[l].pkg]
      BY <1>1, RowsPresent
    <3>3. projects' = projects
      BY <1>1
    <3>4. SameRead(l)
      BY <3>1, <3>2, <3>3 DEF SameRead
    <3> QED BY <3>4
  <2>3. CASE l \in Carried(n, Retagged(n, t), id)
    <3>1. links[l] # NoRow /\ packages[links[l].pkg].name = n
      <4>1. packages[links[l].pkg].name = n
        BY <2>3, CarriedRows
      <4> QED BY <2>3, <4>1 DEF Carried
    <3>2. SameRow(l)
      BY TagMovesSameRow
    <3> QED BY <3>1, <3>2 DEF SameRow, Row
  <2> QED BY <2>2, <2>3
<1> QED BY <1>2, SameConsumption

LEMMA TagMovesRefines ==
  ASSUME IInv, IInv', NEW n \in Name, NEW t \in Tag, NEW h \in Hash, NEW id \in Id,
         TagMoves(n, t, h, id)
  PROVE  /\ storedBuilds' = storedBuilds \cup {<<n, h>>}
         /\ Registry!MoveChannel(n, t, h)
         /\ projectMap' = projectMap
<1> DEFINE build == [name |-> n, hash |-> h]
<1>1. storedBuilds' = storedBuilds \cup {<<n, h>>}
  <2>1. \A m \in Name, g \in Hash :
           [name |-> m, hash |-> g] = build <=> m = n /\ g = h
    OBVIOUS
  <2>2. /\ packages[id] \in {NoRow, build}
        /\ \A i \in Id : packages'[i] = IF i = id THEN build ELSE packages[i]
    BY DEF TagMoves
  <2>3. \A m \in Name, g \in Hash :
           (\E i \in Id : packages'[i] = [name |-> m, hash |-> g])
              <=> \/ \E i \in Id : packages[i] = [name |-> m, hash |-> g]
                  \/ m = n /\ g = h
    <3> SUFFICES ASSUME NEW m \in Name, NEW g \in Hash
                 PROVE  (\E i \in Id : packages'[i] = [name |-> m, hash |-> g])
                          <=> \/ \E i \in Id : packages[i] = [name |-> m, hash |-> g]
                              \/ m = n /\ g = h
      OBVIOUS
    <3>1. [name |-> m, hash |-> g] # NoRow
      BY Absent
    <3> HIDE DEF build
    <3> QED BY <2>1, <2>2, <3>1
  <2>4. storedBuilds =
          {b \in Name \X Hash : \E i \in Id : packages[i] = [name |-> b[1], hash |-> b[2]]}
    BY Lookups DEF StoredLookup
  <2>5. storedBuilds' =
          {b \in Name \X Hash : \E i \in Id : packages'[i] = [name |-> b[1], hash |-> b[2]]}
    BY LookupsAfter DEF StoredLookup
  <2> QED BY <2>3, <2>4, <2>5
<1>2. Registry!MoveChannel(n, t, h)
  <2>1. channelMap = tags /\ channelMap' = tags'
    BY Lookups, LookupsAfter DEF ChannelLookup, TagMoves
  <2>2. Registry!Moved(n, t) = Retagged(n, t)
    BY MovedIsRetagged DEF TagMoves
  <2>3. tags' = [tags EXCEPT ![n] = [u \in Tag |-> IF u \in Retagged(n, t) THEN h ELSE @[u]]]
    BY DEF TagMoves, setTag
  <2>4. consumesMap' =
          [q \in Path |-> [consumesMap[q] EXCEPT ![n] =
              IF Registry!Follows(consumesMap[q][n], n, Retagged(n, t))
              THEN [consumesMap[q][n] EXCEPT !.hash = h] ELSE consumesMap[q][n]]]
    <3>1. \A q \in Path : consumesMap'[q] =
            [consumesMap[q] EXCEPT ![n] =
               IF Registry!Follows(consumesMap[q][n], n, Retagged(n, t))
               THEN [consumesMap[q][n] EXCEPT !.hash = h] ELSE consumesMap[q][n]]
      <4> SUFFICES ASSUME NEW q \in Path
                   PROVE  consumesMap'[q] =
                            [consumesMap[q] EXCEPT ![n] =
                               IF Registry!Follows(consumesMap[q][n], n, Retagged(n, t))
                               THEN [consumesMap[q][n] EXCEPT !.hash = h]
                               ELSE consumesMap[q][n]]
        OBVIOUS
      <4>1. /\ consumesMap[q] = [m \in Name |-> consumesMap[q][m]]
            /\ consumesMap'[q] = [m \in Name |-> consumesMap'[q][m]]
        BY DEF consumesMap
      <4>2. \A m \in Name : m # n => consumesMap'[q][m] = consumesMap[q][m]
        BY TagMovesOthers
      <4>3. consumesMap'[q][n] =
              IF Registry!Follows(consumesMap[q][n], n, Retagged(n, t))
              THEN [consumesMap[q][n] EXCEPT !.hash = h] ELSE consumesMap[q][n]
        BY TagMovesConsumption
      <4> QED BY <4>1, <4>2, <4>3
    <3>2. consumesMap' = [q \in Path |-> consumesMap'[q]]
      BY DEF consumesMap
    <3> QED BY <3>1, <3>2
  <2> QED BY <2>1, <2>2, <2>3, <2>4 DEF Registry!MoveChannel
<1>3. projectMap' = projectMap
  BY DEF TagMoves, projectMap, GetProjectByPath
<1> QED BY <1>1, <1>2, <1>3

LEMMA PublishRefines ==
  ASSUME IInv, IInv', NEW n \in Name, NEW h \in Hash, NEW t \in Tag,
         InsertPackageWithFilesTagged(n, h, t)
  PROVE  Registry!Publish(n, h, t)
  BY PublishMoves, TagMovesRefines DEF Registry!Publish

LEMMA SetTagRefines ==
  ASSUME IInv, IInv', NEW n \in Name, NEW h \in Hash, NEW t \in Tag, SetTag(n, t, h)
  PROVE  Registry!SetTag(n, t, h)
<1>1. /\ storedBuilds' = storedBuilds \cup {<<n, h>>}
      /\ Registry!MoveChannel(n, t, h)
      /\ projectMap' = projectMap
  BY SetTagMoves, TagMovesRefines
<1>2. <<n, h>> \in storedBuilds
  <2>1. \E i \in Id : packages[i] = [name |-> n, hash |-> h]
    BY FindPackage DEF SetTag
  <2> QED BY <2>1, Lookups DEF StoredLookup
<1> QED BY <1>1, <1>2 DEF Registry!SetTag

-----------------------------------------------------------------------------
(* The other methods.                                                      *)

(* Nothing is stored or tagged, and no channel moves.                      *)
LEMMA SameBuilds ==
  ASSUME UNCHANGED <<packages, byName, tags>>
  PROVE  storedBuilds' = storedBuilds /\ channelMap' = channelMap
  BY DEF storedBuilds, channelMap, GetPackageByName, GetPackageByHash, ResolveTag,
         findPackageByHash, HashOf

LEMMA SameProjects ==
  ASSUME UNCHANGED <<projects, byPath>>
  PROVE  projectMap' = projectMap
  BY DEF projectMap, GetProjectByPath

(* What everyone consumes, all projects and packages at once.              *)
LEMMA AllConsumption ==
  ASSUME \A q \in Path, n \in Name : consumesMap'[q][n] = consumesMap[q][n]
  PROVE  consumesMap' = consumesMap
<1>1. /\ consumesMap = [q \in Path |-> [n \in Name |-> consumesMap[q][n]]]
      /\ consumesMap' = [q \in Path |-> [n \in Name |-> consumesMap'[q][n]]]
  BY DEF consumesMap
<1> QED BY <1>1

(* migrateTx changes nothing anyone can look up.                           *)
LEMMA MigrateRefines ==
  ASSUME Migrate
  PROVE  UNCHANGED Registry!vars
<1>1. UNCHANGED <<packages, byName, projects, byPath, links, byPackage, byProject>>
  BY DEF Migrate
<1>2. storedBuilds' = storedBuilds
  BY <1>1 DEF storedBuilds, GetPackageByHash, findPackageByHash
<1>3. channelMap' = channelMap
  <2>1. \A n \in Name : GetPackageByName(n)' = GetPackageByName(n)
    BY <1>1 DEF GetPackageByName
  <2>2. \A n \in Name, t \in Tag : t # Latest => ResolveTag(n, t)' = ResolveTag(n, t)
    <3> SUFFICES ASSUME NEW n \in Name, NEW t \in Tag, t # Latest
                 PROVE  ResolveTag(n, t)' = ResolveTag(n, t)
      OBVIOUS
    <3>1. tags'[n][t] = tags[n][t]
      BY DEF Migrate
    <3> QED BY <1>1, <3>1 DEF ResolveTag, GetPackageByHash, findPackageByHash
  <2> QED BY <2>1, <2>2 DEF channelMap, HashOf
<1>4. projectMap' = projectMap
  BY <1>1, SameProjects
<1>5. consumesMap' = consumesMap
  BY <1>1 DEF consumesMap, RowsOf, GetLinksForProject, Consumed, BuildOf
<1> QED BY <1>2, <1>3, <1>4, <1>5 DEF Registry!vars

LEMMA DeleteTagRefines ==
  ASSUME IInv, IInv', NEW n \in Name, NEW t \in Tag, DeleteTag(n, t)
  PROVE  Registry!DeleteTag(n, t)
<1>1. /\ t # Latest /\ schema = Current /\ schema' = Current
      /\ tags' = [tags EXCEPT ![n][t] = NoRow]
      /\ UNCHANGED <<packages, byName, projects, byPath, links, byPackage, byProject>>
  BY DEF DeleteTag
<1>2. channelMap = tags /\ channelMap' = tags'
  BY <1>1, Lookups, LookupsAfter DEF ChannelLookup
<1>3. storedBuilds' = storedBuilds
  BY <1>1 DEF storedBuilds, GetPackageByHash, findPackageByHash
<1>4. projectMap' = projectMap
  BY <1>1, SameProjects
<1>5. consumesMap' = consumesMap
  BY <1>1 DEF consumesMap, RowsOf, GetLinksForProject, Consumed, BuildOf
<1> QED BY <1>1, <1>2, <1>3, <1>4, <1>5 DEF Registry!DeleteTag

LEMMA DeletePackageRefines ==
  ASSUME IInv, IInv', NEW i \in Id, NEW n \in Name, NEW h \in Hash,
         packages[i] = [name |-> n, hash |-> h], DeletePackage(i)
  PROVE  Registry!DeletePackage(n, h)
<1>1. /\ packages[i] # NoRow
      /\ schema = Current /\ schema' = Current /\ UNCHANGED <<projects, byPath>>
  BY DEF DeletePackage
<1>2. /\ \A j \in Id : packages'[j] = IF j = i THEN NoRow ELSE packages[j]
      /\ \A l \in Id : links'[l] = IF links[l] # NoRow /\ links[l].pkg = i THEN NoRow
                                  ELSE links[l]
  BY DeletePackageRows
<1>3. tags' = [tags EXCEPT ![n] = [t \in Tag |-> IF @[t] = h THEN NoRow ELSE @[t]]]
  BY DEF DeletePackage
<1>4. \A j \in Id : packages[j] = [name |-> n, hash |-> h] <=> j = i
  BY <1>1 DEF IInv, Consistent, RecordsDistinct
<1>5. <<n, h>> \in storedBuilds /\ storedBuilds' = storedBuilds \ {<<n, h>>}
  <2>1. storedBuilds =
          {b \in Name \X Hash : \E j \in Id : packages[j] = [name |-> b[1], hash |-> b[2]]}
    BY Lookups DEF StoredLookup
  <2>2. storedBuilds' =
          {b \in Name \X Hash : \E j \in Id : packages'[j] = [name |-> b[1], hash |-> b[2]]}
    BY LookupsAfter DEF StoredLookup
  <2>3. \A m \in Name, g \in Hash :
           (\E j \in Id : packages'[j] = [name |-> m, hash |-> g])
              <=> /\ \E j \in Id : packages[j] = [name |-> m, hash |-> g]
                  /\ ~(m = n /\ g = h)
    <3> SUFFICES ASSUME NEW m \in Name, NEW g \in Hash
                 PROVE  (\E j \in Id : packages'[j] = [name |-> m, hash |-> g])
                           <=> /\ \E j \in Id : packages[j] = [name |-> m, hash |-> g]
                               /\ ~(m = n /\ g = h)
      OBVIOUS
    <3>1. [name |-> m, hash |-> g] # NoRow
      BY Absent
    <3>2. \A j \in Id : packages'[j] = [name |-> m, hash |-> g]
                          <=> j # i /\ packages[j] = [name |-> m, hash |-> g]
      BY <1>2, <3>1
    <3>3. m = n /\ g = h <=> [name |-> m, hash |-> g] = [name |-> n, hash |-> h]
      OBVIOUS
    <3> QED BY <1>4, <3>2, <3>3
  <2>4. \E j \in Id : packages[j] = [name |-> n, hash |-> h]
    BY <1>4
  <2> QED BY <1>1, <2>1, <2>2, <2>3, <2>4
<1>6. channelMap' = [channelMap EXCEPT ![n] =
                       [t \in Tag |-> IF @[t] = h THEN NoRow ELSE @[t]]]
  BY <1>1, <1>3, Lookups, LookupsAfter DEF ChannelLookup
<1>7. projectMap' = projectMap
  BY <1>1, SameProjects
<1>8. \A l \in Id : links[l] # NoRow =>
         /\ links[l].pkg \in Id /\ packages[links[l].pkg] \in Package
         /\ packages[links[l].pkg] # NoRow
  BY RowsPresent
<1>9. \A l \in Id : links[l] = NoRow \/ links[l].pkg # i => SameRead(l)
  BY <1>1, <1>2, <1>8 DEF SameRead
<1>10. ASSUME NEW q \in Path, NEW m \in Name, m # n
       PROVE  consumesMap'[q][m] = consumesMap[q][m]
  <2>1. ASSUME NEW l \in Id
        PROVE  SameRead(l) \/ (~Row(l, q, m) /\ ~Row(l, q, m)')
    <3>1. CASE links[l] = NoRow \/ links[l].pkg # i
      BY <1>9, <3>1
    <3>2. CASE links[l] # NoRow /\ links[l].pkg = i
      BY <1>1, <1>2, <1>10, <3>2 DEF Row
    <3> QED BY <3>1, <3>2
  <2> QED BY <2>1, SameConsumption
<1>11. ASSUME NEW q \in Path
       PROVE  consumesMap'[q][n] =
                 IF consumesMap[q][n] # NoRow /\ consumesMap[q][n].hash = h THEN NoRow
                 ELSE consumesMap[q][n]
  <2>1. ASSUME NEW l \in Id, Row(l, q, n), links[l].pkg = i
        PROVE  consumesMap'[q][n] = NoRow /\ consumesMap[q][n].hash = h
    <3>1. consumesMap[q][n] = Consumed(l)
      BY <2>1, Lookups DEF ConsumesLookup
    <3>2. Consumed(l).hash = h
      BY <1>1, <2>1 DEF Consumed, BuildOf
    <3>3. ASSUME NEW k \in Id PROVE ~Row(k, q, n)'
      <4>1. CASE k = l
        BY <1>2, <2>1, <4>1 DEF Row
      <4>2. CASE k # l
        <5>1. ~Row(k, q, n)
          BY <1>1, <2>1, <4>2, RowsOfExact
        <5> QED BY <1>1, <1>2, <1>8, <5>1 DEF Row
      <4> QED BY <4>1, <4>2
    <3>4. consumesMap'[q][n] = NoRow
      BY <1>1, <3>3, LookupsAfter DEF ConsumesLookup
    <3> QED BY <3>1, <3>2, <3>4
  <2>2. ASSUME NEW l \in Id, Row(l, q, n), links[l].pkg # i
        PROVE  consumesMap'[q][n] = consumesMap[q][n] /\ consumesMap[q][n].hash # h
    <3>1. consumesMap[q][n] = Consumed(l)
      BY <1>1, <2>2, Lookups DEF ConsumesLookup
    <3>2. packages[links[l].pkg].hash # h
      <4>1. links[l] # NoRow /\ packages[links[l].pkg].name = n
        BY <2>2 DEF Row
      <4>2. packages[links[l].pkg] # [name |-> n, hash |-> h]
        BY <1>4, <1>8, <2>2, <4>1
      <4> QED BY <1>8, <4>1, <4>2 DEF Package
    <3>3. SameRead(l)
      BY <1>9, <2>2
    <3>4. Row(l, q, n)' /\ Consumed(l)' = Consumed(l)
      BY <2>2, <3>3, SameReadRow
    <3>5. consumesMap'[q][n] = Consumed(l)'
      BY <1>1, <3>4, LookupsAfter DEF ConsumesLookup
    <3> QED BY <3>1, <3>2, <3>4, <3>5 DEF Consumed, BuildOf
  <2>3. ASSUME \A l \in Id : ~Row(l, q, n)
        PROVE  consumesMap'[q][n] = NoRow /\ consumesMap[q][n] = NoRow
    <3>1. \A l \in Id : ~Row(l, q, n)'
      BY <1>1, <1>2, <1>8, <2>3 DEF Row
    <3> QED BY <1>1, <2>3, <3>1, Lookups, LookupsAfter DEF ConsumesLookup
  <2>4. \A l \in Id : Row(l, q, n) => consumesMap[q][n] # NoRow
    BY <1>1, Lookups DEF ConsumesLookup
  <2> QED BY <2>1, <2>2, <2>3, <2>4
<1>12. consumesMap' = [q \in Path |-> [consumesMap[q] EXCEPT ![n] =
                         IF @ # NoRow /\ @.hash = h THEN NoRow ELSE @]]
  <2>1. \A q \in Path : /\ consumesMap[q] = [m \in Name |-> consumesMap[q][m]]
                        /\ consumesMap'[q] = [m \in Name |-> consumesMap'[q][m]]
    BY DEF consumesMap
  <2>2. \A q \in Path : consumesMap'[q] = [consumesMap[q] EXCEPT ![n] =
                           IF @ # NoRow /\ @.hash = h THEN NoRow ELSE @]
    BY <1>1, <1>10, <1>11, <2>1
  <2>3. consumesMap' = [q \in Path |-> consumesMap'[q]]
    BY DEF consumesMap
  <2> QED BY <2>2, <2>3
<1> QED BY <1>5, <1>6, <1>7, <1>12 DEF Registry!DeletePackage

(* A write to one project's row is seen under its path alone.              *)
LEMMA InsertProjectRefines ==
  ASSUME IInv, IInv', NEW q \in Path, NEW d \in Device \cup {NoDevice}, InsertProject(q, d)
  PROVE  Registry!InsertProject(q, d)
<1>1. PICK k \in Id : ProjectWritten(q, d, k)
  BY InsertProjectRows
<1>2. /\ UNCHANGED <<packages, byName, tags, links, byPackage, byProject, schema>>
      /\ projects[k] # NoRow => projects[k].path = q
      /\ projects'[k] = [path   |-> q,
                         device |-> IF d = NoDevice /\ projects[k] # NoRow
                                    THEN projects[k].device ELSE d]
      /\ \A j \in Id \ {k} : projects'[j] = projects[j]
  BY <1>1 DEF ProjectWritten
<1>3. storedBuilds' = storedBuilds /\ channelMap' = channelMap
  BY <1>2, SameBuilds
<1>4. ProjectLookup /\ ProjectLookup'
  BY Lookups, LookupsAfter
<1>5. projects'[k] # NoRow /\ projects'[k].path = q
  <2>1. projects'[k] # NoRow
    <3>1. (IF d = NoDevice /\ projects[k] # NoRow THEN projects[k].device ELSE d)
             \in Device \cup {NoDevice}
      BY DEF IInv, TypeOK, Project
    <3>2. projects'[k] \in Project
      BY <1>2, <3>1 DEF Project
    <3> QED BY <3>2, RowFacts
  <2> QED BY <1>2, <2>1
<1>6. projectMap'[q] = IF d = NoDevice /\ projectMap[q] # NoRow THEN projectMap[q] ELSE d
  <2>1. projectMap'[q] = IF d = NoDevice /\ projects[k] # NoRow THEN projects[k].device ELSE d
    BY <1>2, <1>4, <1>5 DEF ProjectLookup
  <2>2. CASE projects[k] # NoRow
    <3>1. projectMap[q] = projects[k].device
      BY <1>2, <1>4, <2>2 DEF ProjectLookup
    <3>2. projects[k].device # NoRow
      BY <2>2, Absent DEF IInv, TypeOK, Project
    <3> QED BY <2>1, <2>2, <3>1, <3>2
  <2>3. CASE projects[k] = NoRow
    <3>1. byPath[q] = NoId
      BY <1>1, <2>3 DEF ProjectWritten
    <3>2. projectMap[q] = NoRow
      BY <3>1 DEF projectMap, GetProjectByPath
    <3> QED BY <2>1, <2>3, <3>2
  <2> QED BY <2>2, <2>3
<1>7. ASSUME NEW p \in Path, p # q
      PROVE  projectMap'[p] = projectMap[p]
  <2>1. CASE \E j \in Id : projects[j] # NoRow /\ projects[j].path = p
    <3>1. PICK j \in Id : projects[j] # NoRow /\ projects[j].path = p
      BY <2>1
    <3>2. projects'[j] = projects[j]
      BY <1>2, <1>7, <3>1
    <3>3. projectMap[p] = projects[j].device
      BY <1>4, <3>1 DEF ProjectLookup
    <3>4. projectMap'[p] = projects[j].device
      BY <1>4, <3>1, <3>2 DEF ProjectLookup
    <3> QED BY <3>3, <3>4
  <2>2. CASE \A j \in Id : projects[j] = NoRow \/ projects[j].path # p
    <3>1. \A j \in Id : projects'[j] = NoRow \/ projects'[j].path # p
      BY <1>2, <1>5, <1>7, <2>2
    <3> QED BY <1>4, <2>2, <3>1 DEF ProjectLookup
  <2> QED BY <2>1, <2>2
<1>8. projectMap' = [projectMap EXCEPT ![q] = IF d = NoDevice /\ @ # NoRow THEN @ ELSE d]
  <2>1. /\ projectMap = [p \in Path |-> projectMap[p]]
        /\ projectMap' = [p \in Path |-> projectMap'[p]]
    BY DEF projectMap
  <2> QED BY <1>6, <1>7, <2>1
<1>9. consumesMap' = consumesMap
  <2>1. ASSUME NEW l \in Id PROVE SameRead(l)
    <3>1. links[l] # NoRow => links[l].proj \in Id /\ projects[links[l].proj] # NoRow
      BY RowsPresent
    <3>2. links[l] # NoRow => projects'[links[l].proj].path = projects[links[l].proj].path
      BY <1>2, <1>5, <3>1
    <3> QED BY <1>2, <3>2 DEF SameRead
  <2>2. \A p \in Path, n \in Name : consumesMap'[p][n] = consumesMap[p][n]
    BY <2>1, SameConsumption
  <2> QED BY <2>2, AllConsumption
<1> QED BY <1>3, <1>8, <1>9 DEF Registry!InsertProject

LEMMA SetProjectDeviceRefines ==
  ASSUME IInv, IInv', NEW i \in Id, NEW d \in Device, NEW q \in Path,
         projects[i] # NoRow, projects[i].path = q, SetProjectDevice(i, d)
  PROVE  Registry!SetProjectDevice(q, d)
<1>1. /\ projects[i] \in Project
      /\ projects' = [projects EXCEPT ![i].device = d]
      /\ UNCHANGED <<packages, byName, tags, byPath, links, byPackage, byProject>>
  BY DEF SetProjectDevice, IInv, TypeOK
<1>2. byPath[q] = i /\ i # NoId
  BY RowFacts DEF IInv, Consistent, PathIndexExact
<1>3. \A j \in Id : projects'[j] = IF j = i THEN [projects[i] EXCEPT !.device = d]
                                  ELSE projects[j]
  BY <1>1 DEF IInv, TypeOK
<1>4. projects'[i].path = q /\ projects'[i].device = d /\ projects'[i] # NoRow
  <2>1. projects'[i] = [projects[i] EXCEPT !.device = d]
    BY <1>3
  <2>2. [projects[i] EXCEPT !.device = d] \in Project
    BY <1>1 DEF Project
  <2> QED BY <1>1, <2>1, <2>2, RowFacts DEF Project
<1>5. storedBuilds' = storedBuilds /\ channelMap' = channelMap
  BY <1>1, SameBuilds
<1>6. projectMap[q] = projects[i].device /\ projects[i].device # NoRow
  BY <1>1, <1>2, Absent DEF projectMap, GetProjectByPath, Project
<1>7. projectMap' = [projectMap EXCEPT ![q] = d]
  <2>1. projectMap'[q] = d
    BY <1>1, <1>2, <1>4 DEF projectMap, GetProjectByPath
  <2>2. ASSUME NEW p \in Path, p # q
        PROVE  projectMap'[p] = projectMap[p]
    <3>1. byPath[p] # i
      BY <2>2 DEF IInv, Consistent, PathIndexExact
    <3>2. byPath[p] = NoId \/ (byPath[p] \in Id /\ projects'[byPath[p]] = projects[byPath[p]])
      BY <1>3, <3>1 DEF IInv, TypeOK
    <3>3. byPath' = byPath
      BY <1>1
    <3>4. GetProjectByPath(p)' = GetProjectByPath(p)
      BY <3>2, <3>3 DEF GetProjectByPath
    <3> QED BY <3>4 DEF projectMap
  <2>3. /\ projectMap = [p \in Path |-> projectMap[p]]
        /\ projectMap' = [p \in Path |-> projectMap'[p]]
    BY DEF projectMap
  <2> QED BY <2>1, <2>2, <2>3
<1>8. consumesMap' = consumesMap
  <2>1. ASSUME NEW l \in Id PROVE SameRead(l)
    <3>1. links[l] # NoRow => links[l].proj \in Id
      BY RowsPresent
    <3>2. links[l] # NoRow => projects'[links[l].proj].path = projects[links[l].proj].path
      BY <1>3, <1>4, <3>1
    <3> QED BY <1>1, <3>2 DEF SameRead
  <2>2. \A p \in Path, n \in Name : consumesMap'[p][n] = consumesMap[p][n]
    BY <2>1, SameConsumption
  <2> QED BY <2>2, AllConsumption
<1> QED BY <1>5, <1>6, <1>7, <1>8 DEF Registry!SetProjectDevice

LEMMA DeleteProjectRefines ==
  ASSUME IInv, IInv', NEW i \in Id, NEW q \in Path,
         projects[i] # NoRow, projects[i].path = q, DeleteProject(i)
  PROVE  Registry!DeleteProject(q)
<1>1. /\ projects[i] \in Project
      /\ UNCHANGED <<packages, byName, tags, schema>>
      /\ \A j \in Id : projects'[j] = IF j = i THEN NoRow ELSE projects[j]
      /\ \A l \in Id : links'[l] = IF links[l] # NoRow /\ links[l].proj = i THEN NoRow
                                  ELSE links[l]
  BY DeleteProjectRows
<1>2. /\ byPath[q] = i /\ i # NoId
      /\ \A j \in Id : projects[j] # NoRow /\ projects[j].path = q => j = i
  BY RowFacts DEF IInv, Consistent, PathIndexExact
<1>3. storedBuilds' = storedBuilds /\ channelMap' = channelMap
  BY <1>1, SameBuilds
<1>4. projectMap[q] = projects[i].device /\ projects[i].device # NoRow
  BY <1>1, <1>2, Absent DEF projectMap, GetProjectByPath, Project
<1>5. projectMap' = [projectMap EXCEPT ![q] = NoRow]
  <2>1. ProjectLookup /\ ProjectLookup'
    BY Lookups, LookupsAfter
  <2>2. projectMap'[q] = NoRow
    <3>1. \A j \in Id : projects'[j] = NoRow \/ projects'[j].path # q
      BY <1>1, <1>2
    <3> QED BY <2>1, <3>1 DEF ProjectLookup
  <2>3. ASSUME NEW p \in Path, p # q
        PROVE  projectMap'[p] = projectMap[p]
    <3>1. CASE \E j \in Id : projects[j] # NoRow /\ projects[j].path = p
      <4>1. PICK j \in Id : projects[j] # NoRow /\ projects[j].path = p
        BY <3>1
      <4>2. projects'[j] = projects[j]
        BY <1>1, <2>3, <4>1
      <4>3. projectMap[p] = projects[j].device
        BY <2>1, <4>1 DEF ProjectLookup
      <4>4. projectMap'[p] = projects[j].device
        BY <2>1, <4>1, <4>2 DEF ProjectLookup
      <4> QED BY <4>3, <4>4
    <3>2. CASE \A j \in Id : projects[j] = NoRow \/ projects[j].path # p
      <4>1. \A j \in Id : projects'[j] = NoRow \/ projects'[j].path # p
        BY <1>1, <3>2
      <4> QED BY <2>1, <3>2, <4>1 DEF ProjectLookup
    <3> QED BY <3>1, <3>2
  <2>4. /\ projectMap = [p \in Path |-> projectMap[p]]
        /\ projectMap' = [p \in Path |-> projectMap'[p]]
    BY DEF projectMap
  <2> QED BY <2>2, <2>3, <2>4
<1>6. \A l \in Id : links[l] # NoRow =>
         /\ links[l].proj \in Id /\ projects[links[l].proj] # NoRow
  BY RowsPresent
<1>7. ASSUME NEW n \in Name
      PROVE  consumesMap'[q][n] = NoRow
  <2>1. ASSUME NEW l \in Id PROVE ~Row(l, q, n)'
    <3>1. CASE links[l] = NoRow \/ links[l].proj = i
      BY <1>1, <3>1 DEF Row
    <3>2. CASE links[l] # NoRow /\ links[l].proj # i
      <4>1. projects'[links[l].proj] = projects[links[l].proj] /\ links'[l] = links[l]
        BY <1>1, <1>6, <3>2
      <4>2. projects[links[l].proj].path # q
        BY <1>2, <1>6, <3>2
      <4> QED BY <4>1, <4>2 DEF Row
    <3> QED BY <3>1, <3>2
  <2> QED BY <2>1, LookupsAfter DEF ConsumesLookup
<1>8. ASSUME NEW p \in Path, NEW n \in Name, p # q
      PROVE  consumesMap'[p][n] = consumesMap[p][n]
  <2>1. ASSUME NEW l \in Id
        PROVE  SameRead(l) \/ (~Row(l, p, n) /\ ~Row(l, p, n)')
    <3>1. CASE links[l] # NoRow /\ links[l].proj = i
      <4>1. ~Row(l, p, n)
        BY <1>8, <3>1 DEF Row
      <4>2. ~Row(l, p, n)'
        BY <1>1, <3>1 DEF Row
      <4> QED BY <4>1, <4>2
    <3>2. CASE links[l] = NoRow \/ links[l].proj # i
      <4>1. links'[l] = links[l]
        BY <1>1, <3>2
      <4>2. links[l] # NoRow => projects'[links[l].proj] = projects[links[l].proj]
        BY <1>1, <1>6, <3>2
      <4>3. SameRead(l)
        BY <1>1, <4>1, <4>2 DEF SameRead
      <4> QED BY <4>3
    <3> QED BY <3>1, <3>2
  <2> QED BY <2>1, SameConsumption
<1>9. consumesMap' = [consumesMap EXCEPT ![q] = [n \in Name |-> NoRow]]
  <2>1. /\ consumesMap = [p \in Path |-> consumesMap[p]]
        /\ consumesMap' = [p \in Path |-> consumesMap'[p]]
        /\ \A p \in Path : /\ consumesMap[p] = [n \in Name |-> consumesMap[p][n]]
                           /\ consumesMap'[p] = [n \in Name |-> consumesMap'[p][n]]
    BY DEF consumesMap
  <2>2. consumesMap'[q] = [n \in Name |-> NoRow]
    BY <1>7, <2>1
  <2>3. \A p \in Path : p # q => consumesMap'[p] = consumesMap[p]
    BY <1>8, <2>1
  <2> QED BY <2>1, <2>2, <2>3
<1> QED BY <1>3, <1>4, <1>5, <1>9 DEF Registry!DeleteProject

(* Linking replaces whatever the project consumed of the package.          *)
LEMMA InsertLinkRefines ==
  ASSUME IInv, IInv', NEW p \in Id, NEW i \in Id, NEW t \in Tag, NEW pinned \in BOOLEAN,
         InsertLink(p, i, t, pinned),
         NEW q \in Path, NEW n \in Name, NEW h \in Hash,
         projects[i].path = q, packages[p] = [name |-> n, hash |-> h]
  PROVE  Registry!InsertLink(q, n, h, t, pinned)
<1>1. PICK k \in Id : LinkWritten(p, i, t, pinned, k)
  BY InsertLinkRows
<1>2. /\ UNCHANGED <<packages, byName, tags, projects, byPath, schema>>
      /\ packages[p] # NoRow /\ projects[i] # NoRow
      /\ links[k] # NoRow => links[k].pkg = p /\ links[k].proj = i
      /\ links'[k] = [pkg |-> p, proj |-> i, tag |-> t, pinned |-> pinned]
      /\ \A l \in Id \ {k} :
            links'[l] = IF /\ links[l] # NoRow /\ links[l].proj = i
                           /\ packageName(links[l].pkg) = packageName(p) THEN NoRow
                        ELSE links[l]
  BY <1>1 DEF LinkWritten
<1>3. storedBuilds' = storedBuilds /\ channelMap' = channelMap /\ projectMap' = projectMap
  BY <1>2, SameBuilds, SameProjects
<1>4. projectMap[q] # NoRow
  <2>1. projectMap[q] = projects[i].device
    BY <1>2, Lookups DEF ProjectLookup
  <2>2. projects[i].device \in Device \cup {NoDevice}
    BY <1>2 DEF IInv, TypeOK, Project
  <2> QED BY <2>1, <2>2, Absent
<1>5. <<n, h>> \in storedBuilds
  BY Lookups DEF StoredLookup
<1>6. links'[k] # NoRow
  <2>1. links'[k] \in Link
    BY <1>2 DEF Link
  <2> QED BY <2>1, RowFacts
<1>7. consumesMap'[q][n] = [hash |-> h, tag |-> t, pinned |-> pinned]
  <2>1. Row(k, q, n)'
    BY <1>2, <1>6 DEF Row
  <2>2. consumesMap'[q][n] = Consumed(k)'
    BY <2>1, LookupsAfter DEF ConsumesLookup
  <2>3. Consumed(k)' = [hash |-> h, tag |-> t, pinned |-> pinned]
    BY <1>2 DEF Consumed, BuildOf
  <2> QED BY <2>2, <2>3
<1>8. \A l \in Id : links[l] # NoRow =>
         /\ links[l].proj \in Id /\ projects[links[l].proj] # NoRow
         /\ links[l].pkg \in Id /\ packages[links[l].pkg] # NoRow
  BY RowsPresent
<1>9. ASSUME NEW r \in Path, NEW m \in Name, r # q \/ m # n
      PROVE  consumesMap'[r][m] = consumesMap[r][m]
  <2>1. ASSUME NEW l \in Id
        PROVE  SameRead(l) \/ (~Row(l, r, m) /\ ~Row(l, r, m)')
    <3>1. CASE l = k
      <4>1. ~Row(l, r, m)
        BY <1>2, <1>9, <3>1 DEF Row
      <4>2. ~Row(l, r, m)'
        BY <1>2, <1>9, <3>1 DEF Row
      <4> QED BY <4>1, <4>2
    <3>2. CASE l # k /\ links'[l] = links[l]
      <4>1. SameRead(l)
        BY <1>2, <3>2 DEF SameRead
      <4> QED BY <4>1
    <3>3. CASE l # k /\ links'[l] # links[l]
      <4>1. /\ links[l] # NoRow /\ links[l].proj = i /\ links'[l] = NoRow
            /\ packageName(links[l].pkg) = packageName(p)
        BY <1>2, <3>3
      <4>2. packages[links[l].pkg].name = n
        BY <1>2, <1>8, <4>1 DEF packageName
      <4>3. ~Row(l, r, m)
        BY <1>9, <4>1, <4>2 DEF Row
      <4>4. ~Row(l, r, m)'
        BY <4>1 DEF Row
      <4> QED BY <4>3, <4>4
    <3> QED BY <3>1, <3>2, <3>3
  <2> QED BY <2>1, SameConsumption
<1>10. consumesMap' = [consumesMap EXCEPT ![q][n] =
                         [hash |-> h, tag |-> t, pinned |-> pinned]]
  <2>1. /\ consumesMap = [r \in Path |-> consumesMap[r]]
        /\ consumesMap' = [r \in Path |-> consumesMap'[r]]
        /\ \A r \in Path : /\ consumesMap[r] = [m \in Name |-> consumesMap[r][m]]
                           /\ consumesMap'[r] = [m \in Name |-> consumesMap'[r][m]]
    BY DEF consumesMap
  <2>2. consumesMap'[q] = [consumesMap[q] EXCEPT ![n] =
                              [hash |-> h, tag |-> t, pinned |-> pinned]]
    BY <1>7, <1>9, <2>1
  <2>3. \A r \in Path : r # q => consumesMap'[r] = consumesMap[r]
    BY <1>9, <2>1
  <2> QED BY <2>1, <2>2, <2>3
<1> QED BY <1>3, <1>4, <1>5, <1>10 DEF Registry!InsertLink

LEMMA DeleteLinkRefines ==
  ASSUME IInv, IInv', NEW p \in Id, NEW i \in Id, DeleteLink(p, i)
  PROVE  \E q \in Path, n \in Name : Registry!DeleteLink(q, n)
<1>1. PICK d \in Id :
         /\ links[d] # NoRow
         /\ \A l \in Id : links'[l] = IF l = d THEN NoRow ELSE links[l]
  BY DeleteLinkRows
<1>2. UNCHANGED <<packages, byName, tags, projects, byPath, schema>>
  BY DeleteLinkRows
<1>3. /\ packages[links[d].pkg] \in Package /\ projects[links[d].proj] \in Project
  BY <1>1, RowsPresent
<1>4. PICK q \in Path, n \in Name :
         projects[links[d].proj].path = q /\ packages[links[d].pkg].name = n
  BY <1>3 DEF Package, Project
<1>5. Row(d, q, n)
  BY <1>1, <1>4 DEF Row
<1>6. storedBuilds' = storedBuilds /\ channelMap' = channelMap /\ projectMap' = projectMap
  BY <1>2, SameBuilds, SameProjects
<1>7. consumesMap[q][n] # NoRow
  BY <1>5, Lookups DEF ConsumesLookup
<1>8. consumesMap'[q][n] = NoRow
  <2>1. ASSUME NEW l \in Id PROVE ~Row(l, q, n)'
    <3>1. CASE l = d
      BY <1>1, <3>1 DEF Row
    <3>2. CASE l # d
      <4>1. ~Row(l, q, n)
        BY <1>5, <3>2, RowsOfExact
      <4> QED BY <1>1, <1>2, <3>2, <4>1 DEF Row
    <3> QED BY <3>1, <3>2
  <2> QED BY <2>1, LookupsAfter DEF ConsumesLookup
<1>9. ASSUME NEW r \in Path, NEW m \in Name, r # q \/ m # n
      PROVE  consumesMap'[r][m] = consumesMap[r][m]
  <2>1. ASSUME NEW l \in Id
        PROVE  SameRead(l) \/ (~Row(l, r, m) /\ ~Row(l, r, m)')
    <3>1. CASE l = d
      <4>1. ~Row(l, r, m)
        BY <1>4, <1>9, <3>1 DEF Row
      <4>2. ~Row(l, r, m)'
        BY <1>1, <3>1 DEF Row
      <4> QED BY <4>1, <4>2
    <3>2. CASE l # d
      <4>1. SameRead(l)
        BY <1>1, <1>2, <3>2 DEF SameRead
      <4> QED BY <4>1
    <3> QED BY <3>1, <3>2
  <2> QED BY <2>1, SameConsumption
<1>10. consumesMap' = [consumesMap EXCEPT ![q][n] = NoRow]
  <2>1. /\ consumesMap = [r \in Path |-> consumesMap[r]]
        /\ consumesMap' = [r \in Path |-> consumesMap'[r]]
        /\ \A r \in Path : /\ consumesMap[r] = [m \in Name |-> consumesMap[r][m]]
                           /\ consumesMap'[r] = [m \in Name |-> consumesMap'[r][m]]
    BY DEF consumesMap
  <2>2. consumesMap'[q] = [consumesMap[q] EXCEPT ![n] = NoRow]
    BY <1>8, <1>9, <2>1
  <2>3. \A r \in Path : r # q => consumesMap'[r] = consumesMap[r]
    BY <1>9, <2>1
  <2> QED BY <2>1, <2>2, <2>3
<1> QED BY <1>6, <1>7, <1>10 DEF Registry!DeleteLink

-----------------------------------------------------------------------------
(* Every method is an operation of the registry, or nothing.               *)
LEMMA StepRefines ==
  ASSUME IInv, IInv', [Next]_vars
  PROVE  [Registry!Next]_(Registry!vars)
<1>1. CASE Migrate
  BY <1>1, MigrateRefines
<1>2. ASSUME NEW n \in Name, NEW h \in Hash, NEW t \in Tag,
             InsertPackageWithFilesTagged(n, h, t)
      PROVE  Registry!Next
  BY <1>2, PublishRefines DEF Registry!Next
<1>3. ASSUME NEW n \in Name, NEW h \in Hash, NEW t \in Tag, SetTag(n, t, h)
      PROVE  Registry!Next
  BY <1>3, SetTagRefines DEF Registry!Next
<1>4. ASSUME NEW n \in Name, NEW t \in Tag, DeleteTag(n, t)
      PROVE  Registry!Next
  BY <1>4, DeleteTagRefines DEF Registry!Next
<1>5. ASSUME NEW i \in Id, DeletePackage(i)
      PROVE  Registry!Next
  <2>1. packages[i] \in Package
    BY <1>5, DeletePackageRows
  <2>2. PICK n \in Name, h \in Hash : packages[i] = [name |-> n, hash |-> h]
    BY <2>1 DEF Package
  <2> QED BY <1>5, <2>2, DeletePackageRefines DEF Registry!Next
<1>6. ASSUME NEW q \in Path, NEW d \in Device \cup {NoDevice}, InsertProject(q, d)
      PROVE  Registry!Next
  BY <1>6, InsertProjectRefines DEF Registry!Next
<1>7. ASSUME NEW i \in Id, NEW d \in Device, SetProjectDevice(i, d)
      PROVE  Registry!Next
  <2>1. projects[i] # NoRow /\ projects[i].path \in Path
    BY <1>7 DEF SetProjectDevice, IInv, TypeOK, Project
  <2> QED BY <1>7, <2>1, SetProjectDeviceRefines DEF Registry!Next
<1>8. ASSUME NEW i \in Id, DeleteProject(i)
      PROVE  Registry!Next
  <2>1. projects[i] # NoRow /\ projects[i].path \in Path
    BY <1>8, DeleteProjectRows DEF Project
  <2> QED BY <1>8, <2>1, DeleteProjectRefines DEF Registry!Next
<1>9. ASSUME NEW p \in Id, NEW i \in Id, NEW t \in Tag, NEW pinned \in BOOLEAN,
             InsertLink(p, i, t, pinned)
      PROVE  Registry!Next
  <2>1. /\ packages[p] \in Package /\ projects[i] \in Project
    BY <1>9 DEF InsertLink, IInv, TypeOK
  <2>2. PICK n \in Name, h \in Hash : packages[p] = [name |-> n, hash |-> h]
    BY <2>1 DEF Package
  <2>3. PICK q \in Path : projects[i].path = q
    BY <2>1 DEF Project
  <2>4. Registry!InsertLink(q, n, h, t, pinned)
    BY <1>9, <2>2, <2>3, InsertLinkRefines
  <2> QED BY <2>4 DEF Registry!Next
<1>10. ASSUME NEW p \in Id, NEW i \in Id, DeleteLink(p, i)
       PROVE  Registry!Next
  BY <1>10, DeleteLinkRefines DEF Registry!Next
<1>11. CASE UNCHANGED vars
  <2>1. UNCHANGED <<packages, byName, tags, projects, byPath, links, byProject>>
    BY <1>11 DEF vars
  <2>2. storedBuilds' = storedBuilds /\ channelMap' = channelMap /\ projectMap' = projectMap
    BY <2>1, SameBuilds, SameProjects
  <2>3. consumesMap' = consumesMap
    BY <2>1 DEF consumesMap, RowsOf, GetLinksForProject, Consumed, BuildOf
  <2> QED BY <2>2, <2>3 DEF Registry!vars
<1> QED
  BY <1>1, <1>2, <1>3, <1>4, <1>5, <1>6, <1>7, <1>8, <1>9, <1>10, <1>11 DEF Next

LEMMA InitRefines == Init => Registry!Init
<1> SUFFICES ASSUME Init PROVE Registry!Init
  OBVIOUS
<1>a. IInv
  BY InitType, InitConsistent DEF IInv
<1>b. StoredLookup /\ ProjectLookup /\ ConsumesLookup
  BY <1>a, Lookups
<1>c. /\ channelMap = [n \in Name |-> [t \in Tag |-> channelMap[n][t]]]
      /\ projectMap = [q \in Path |-> projectMap[q]]
      /\ consumesMap = [q \in Path |-> [n \in Name |-> consumesMap[q][n]]]
  BY DEF channelMap, projectMap, consumesMap
<1>d. \A n \in Name, t \in Tag : tags[n][t] = NoRow
  BY DEF Init, Empty
<1>e. \A n \in Name, t \in Tag : t # Latest => channelMap[n][t] = NoRow
  BY <1>d DEF channelMap, ResolveTag, HashOf
<1>1. CASE InitFresh
  <2>1. \A i \in Id : packages[i] = NoRow /\ projects[i] = NoRow /\ links[i] = NoRow
    BY <1>1 DEF InitFresh, Empty
  <2>2. storedBuilds = {}
    <3>1. \A n \in Name, h \in Hash, i \in Id : packages[i] # [name |-> n, hash |-> h]
      BY <2>1, Absent
    <3> QED BY <1>b, <3>1 DEF StoredLookup
  <2>3. channelMap = Registry!NoChannel
    <3>1. \A n \in Name : byName[n] = NoId
      BY <1>1 DEF InitFresh
    <3>2. \A n \in Name : channelMap[n][Latest] = NoRow
      BY <3>1, DBAssumption DEF channelMap, GetPackageByName, HashOf
    <3> QED BY <1>c, <1>e, <3>2 DEF Registry!NoChannel
  <2>4. projectMap = [q \in Path |-> NoRow]
    BY <1>b, <1>c, <2>1 DEF ProjectLookup
  <2>5. consumesMap = Registry!NoConsumption
    <3>1. \A l \in Id, q \in Path, n \in Name : ~Row(l, q, n)
      BY <2>1 DEF Row
    <3> QED BY <1>b, <1>c, <3>1 DEF ConsumesLookup, Registry!NoConsumption
  <2> QED BY <2>2, <2>3, <2>4, <2>5 DEF Registry!Init
<1>2. CASE InitV1
  <2>1. PICK n \in Name, h \in Hash, q \in Path : InitV1!(n, h, q)
    BY <1>2 DEF InitV1
  <2> DEFINE pkg  == [name |-> n, hash |-> h]
             proj == [path |-> q, device |-> NoDevice]
             link == [pkg |-> 1, proj |-> 2, tag |-> Latest, pinned |-> FALSE]
  <2>2. \A i \in Id : /\ packages[i] = IF i = 1 THEN pkg ELSE NoRow
                      /\ projects[i] = IF i = 2 THEN proj ELSE NoRow
                      /\ links[i] = IF i = 3 THEN link ELSE NoRow
    BY <2>1 DEF Empty
  <2>3. \A m \in Name : byName[m] = IF m = n THEN 1 ELSE NoId
    BY <2>1
  <2>4. pkg # NoRow /\ proj # NoRow /\ link # NoRow
    <3>1. pkg \in Package /\ proj \in Project /\ link \in Link
      BY RowFacts DEF Package, Project, Link
    <3> QED BY <3>1, RowFacts
  <2>5. packages[1] = pkg /\ projects[2] = proj /\ links[3] = link
    BY <2>2, RowFacts
  <2>6. /\ pkg.name = n /\ pkg.hash = h /\ proj.path = q /\ proj.device = NoDevice
        /\ link.pkg = 1 /\ link.proj = 2 /\ link.tag = Latest /\ link.pinned = FALSE
    OBVIOUS
  <2>7. storedBuilds = {<<n, h>>}
    <3>1. \A m \in Name, g \in Hash :
             (\E i \in Id : packages[i] = [name |-> m, hash |-> g]) <=> m = n /\ g = h
      <4> SUFFICES ASSUME NEW m \in Name, NEW g \in Hash
                   PROVE  (\E i \in Id : packages[i] = [name |-> m, hash |-> g])
                             <=> m = n /\ g = h
        OBVIOUS
      <4>1. [name |-> m, hash |-> g] # NoRow
        BY Absent
      <4>2. [name |-> m, hash |-> g] = pkg <=> m = n /\ g = h
        OBVIOUS
      <4> HIDE DEF pkg
      <4> QED BY <2>2, <4>1, <4>2, RowFacts
    <3> QED BY <1>b, <3>1 DEF StoredLookup
  <2> HIDE DEF pkg, proj, link
  <2>8. channelMap = [Registry!NoChannel EXCEPT ![n][Latest] = h]
    <3>1. \A m \in Name : channelMap[m][Latest] = IF m = n THEN h ELSE NoRow
      <4>1. \A m \in Name : GetPackageByName(m) = IF m = n THEN pkg ELSE NoRow
        BY <2>3, <2>5, RowFacts DEF GetPackageByName
      <4> QED BY <2>4, <2>6, <4>1, DBAssumption DEF channelMap, HashOf
    <3>2. channelMap = [m \in Name |-> [t \in Tag |->
                          IF m = n /\ t = Latest THEN h ELSE NoRow]]
      BY <1>c, <1>e, <3>1
    <3>3. [Registry!NoChannel EXCEPT ![n][Latest] = h] =
            [m \in Name |-> [t \in Tag |-> IF m = n /\ t = Latest THEN h ELSE NoRow]]
      BY DBAssumption DEF Registry!NoChannel
    <3> QED BY <3>2, <3>3
  <2>9. projectMap = [[p \in Path |-> NoRow] EXCEPT ![q] = NoDevice]
    <3>1. projectMap[q] = NoDevice
      BY <1>b, <2>4, <2>5, <2>6, RowFacts DEF ProjectLookup
    <3>2. \A p \in Path : p # q => projectMap[p] = NoRow
      BY <1>b, <2>2, <2>6 DEF ProjectLookup
    <3> QED BY <1>c, <3>1, <3>2
  <2>10. consumesMap = [Registry!NoConsumption EXCEPT ![q][n] =
                           [hash |-> h, tag |-> Latest, pinned |-> FALSE]]
    <3>1. \A l \in Id, p \in Path, m \in Name : Row(l, p, m) <=> l = 3 /\ p = q /\ m = n
      BY <2>2, <2>4, <2>5, <2>6, RowFacts DEF Row
    <3>2. consumesMap[q][n] = [hash |-> h, tag |-> Latest, pinned |-> FALSE]
      <4>1. consumesMap[q][n] = Consumed(3)
        BY <1>b, <3>1, RowFacts DEF ConsumesLookup
      <4> QED BY <2>5, <2>6, <4>1 DEF Consumed, BuildOf
    <3>3. \A p \in Path, m \in Name : p # q \/ m # n => consumesMap[p][m] = NoRow
      BY <1>b, <3>1 DEF ConsumesLookup
    <3> DEFINE c == [hash |-> h, tag |-> Latest, pinned |-> FALSE]
    <3>4. consumesMap[q][n] = c
      BY <3>2
    <3> HIDE DEF c
    <3>5. consumesMap = [p \in Path |-> [m \in Name |-> IF p = q /\ m = n THEN c ELSE NoRow]]
      BY <1>c, <3>3, <3>4
    <3>6. [Registry!NoConsumption EXCEPT ![q][n] = c] =
            [p \in Path |-> [m \in Name |-> IF p = q /\ m = n THEN c ELSE NoRow]]
      BY DEF Registry!NoConsumption
    <3> QED BY <3>5, <3>6 DEF c
  <2> QED BY <2>7, <2>8, <2>9, <2>10 DEF Registry!Init
<1> QED BY <1>1, <1>2 DEF Init

(* The database implements the registry: seen through its lookups, every   *)
(* behaviour of the buckets is a behaviour of stored builds, channels,     *)
(* projects and consumptions.                                              *)
THEOREM Refinement == Spec => ImplementsRegistry
<1>1. Init => IInv /\ Registry!Init
  BY InitType, InitConsistent, InitRefines DEF IInv
<1>2. IInv /\ IInv' /\ [Next]_vars => [Registry!Next]_(Registry!vars)
  BY StepRefines
<1> QED
  BY <1>1, <1>2, NextConsistent, PTL DEF Spec, ImplementsRegistry, Registry!Spec
============================================================================
