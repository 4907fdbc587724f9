------------------------------- MODULE LnpmDB -------------------------------
(***************************************************************************)
(* internal/db/db.go: the bbolt database at ~/.lnpm/lnpm.db.               *)
(*                                                                         *)
(* Buckets are functions from row ids, with NoRow for a key that is not    *)
(* there; the two link indexes hold sets of link ids, the empty set for an *)
(* absent key (putIndexIDs deletes a key that has no ids left).  Ids of    *)
(* packages, projects, links and files come from one counter.  Every       *)
(* method is one bolt Update transaction, so it is one action; a method    *)
(* that returns an error rolls back, so it is no step at all.              *)
(*                                                                         *)
(* Rows damaged on disk (records that do not parse, dangling ids left by   *)
(* releases before #355) are not modelled here.                            *)
(***************************************************************************)
EXTENDS Naturals, FiniteSets

CONSTANTS
    Name, Hash, Tag, Latest, Path, Device, NoDevice,
    FileCount,  \* FileCount[h]: the number of files packed in build h
    MaxId,      \* bound: the counter hands out no id above it
    NoRow

Id == 1 .. MaxId
NoId == 0       \* ids start at 1; DeleteLink tests linkID == 0 for "none"
Current == 3    \* schemaVersion

Package == [name : Name, hash : Hash]
Project == [path : Path, device : Device \cup {NoDevice}]
Link == [pkg : Id, proj : Id, tag : Tag, pinned : BOOLEAN]

ASSUME DBAssumption ==
    /\ MaxId \in Nat /\ MaxId >= 3
    /\ Latest \in Tag
    /\ FileCount \in [Hash -> Nat]
    /\ NoDevice \notin Device
    /\ NoRow \notin Hash \cup Package \cup Project \cup Link
    /\ NoRow \notin Device \cup {NoDevice}
    /\ NoRow \notin [hash : Hash, tag : Tag, pinned : BOOLEAN]

VARIABLES
    schema,      \* meta["schema_version"]
    nextId,      \* meta["next_id"]
    packages,    \* bucketPackages
    byName,      \* bucketPackagesByName
    tags,        \* bucketTags: tags[n][t]
    files,       \* bucketFiles: the build whose files the row lists
    projects,    \* bucketProjects
    byPath,      \* bucketProjectsByPath
    links,       \* bucketLinks
    byPackage,   \* bucketLinksByPackage
    byProject    \* bucketLinksByProject

vars == <<schema, nextId, packages, byName, tags, files,
          projects, byPath, links, byPackage, byProject>>

TypeOK ==
    /\ schema \in {1, Current}
    /\ nextId \in Nat \ {0}
    /\ packages \in [Id -> Package \cup {NoRow}]
    /\ byName \in [Name -> Id \cup {NoId}]
    /\ tags \in [Name -> [Tag -> Hash \cup {NoRow}]]
    /\ files \in [Id -> Hash \cup {NoRow}]
    /\ projects \in [Id -> Project \cup {NoRow}]
    /\ byPath \in [Path -> Id \cup {NoId}]
    /\ links \in [Id -> Link \cup {NoRow}]
    /\ byPackage \in [Id -> SUBSET Id]
    /\ byProject \in [Id -> SUBSET Id]

Empty(S) == [x \in S |-> NoRow]

InitFresh ==
    /\ schema = Current
    /\ nextId = 1
    /\ packages = Empty(Id)
    /\ byName = [n \in Name |-> NoId]
    /\ files = Empty(Id)
    /\ projects = Empty(Id)
    /\ byPath = [q \in Path |-> NoId]
    /\ links = Empty(Id)
    /\ byPackage = [i \in Id |-> {}]
    /\ byProject = [i \in Id |-> {}]

(* A database a release without tags left behind: one record per name,     *)
(* reached through the name index alone, and no device on its project.     *)
InitV1 == \E n \in Name, h \in Hash, q \in Path :
    /\ schema = 1
    /\ nextId = 4 + FileCount[h]
    /\ packages = [Empty(Id) EXCEPT ![1] = [name |-> n, hash |-> h]]
    /\ byName = [[m \in Name |-> NoId] EXCEPT ![n] = 1]
    /\ files = [Empty(Id) EXCEPT ![1] = h]
    /\ projects = [Empty(Id) EXCEPT ![2] = [path |-> q, device |-> NoDevice]]
    /\ byPath = [[p \in Path |-> NoId] EXCEPT ![q] = 2]
    /\ links = [Empty(Id) EXCEPT ![3] =
                   [pkg |-> 1, proj |-> 2, tag |-> Latest, pinned |-> FALSE]]
    /\ byPackage = [[i \in Id |-> {}] EXCEPT ![1] = {3}]
    /\ byProject = [[i \in Id |-> {}] EXCEPT ![2] = {3}]

Init ==
    /\ tags = [n \in Name |-> Empty(Tag)]
    /\ InitFresh \/ InitV1

-----------------------------------------------------------------------------
(* Reads the methods are built from.                                       *)

(* A slip: one record per name, as before content was retained.            *)
findPackageByName(n, h) ==
    LET found == {i \in Id : packages[i] # NoRow /\ packages[i].name = n}
    IN  IF found = {} THEN NoId ELSE CHOOSE i \in found : TRUE

findPackageByHash(n, h) ==
    LET found == {i \in Id : packages[i] = [name |-> n, hash |-> h]}
    IN  IF found = {} THEN NoId ELSE CHOOSE i \in found : TRUE

packageName(i) == IF packages[i] = NoRow THEN NoRow ELSE packages[i].name

(* A slip: read after the tag has been written, which finds id itself.     *)
PreviousTooLate(n, t, id) == NoId

(* The record a tag names before it is moved onto record id: `previous` of *)
(* setTagTx, NoId when there is none or it is id itself.                   *)
Previous(n, t, id) ==
    LET p == IF tags[n][t] = NoRow THEN NoId ELSE findPackageByHash(n, tags[n][t])
    IN  IF p = id THEN NoId ELSE p

-----------------------------------------------------------------------------
(* A slip: the version written is not the one initDB compares with.        *)
MigrateOneShort ==
    /\ schema # Current
    /\ tags' = [n \in Name |->
                  IF byName[n] = NoId \/ packages[byName[n]] = NoRow THEN tags[n]
                  ELSE [tags[n] EXCEPT ![Latest] = packages[byName[n]].hash]]
    /\ schema' = Current - 1
    /\ UNCHANGED <<nextId, packages, byName, files, projects, byPath,
                   links, byPackage, byProject>>

(* migrateTx, on the open that follows an upgrade.  Until it has run no    *)
(* method can be called: initDB returns the database only after it.        *)
Migrate ==
    /\ schema # Current
    /\ tags' = [n \in Name |->
                  IF byName[n] = NoId \/ packages[byName[n]] = NoRow THEN tags[n]
                  ELSE [tags[n] EXCEPT ![Latest] = packages[byName[n]].hash]]
    /\ schema' = Current
    /\ UNCHANGED <<nextId, packages, byName, files, projects, byPath,
                   links, byPackage, byProject>>

(* A slip: a first release under another tag leaves latest unset.          *)
RetaggedAlone(n, t) == {t}

(* The tags setTagTx writes: the one asked for and, through its own        *)
(* recursive call, the default tag when the name index has no entry.       *)
Retagged(n, t) == {t} \cup (IF byName[n] = NoId THEN {Latest} ELSE {})

(* A slip: pinned rows carried too.                                        *)
CarriedWithPins(n, ts, id) ==
    {l \in Id : /\ links[l] # NoRow
                /\ links[l].tag \in ts
                /\ \E p \in Id : p = Previous(n, links[l].tag, id) /\ l \in byPackage[p]}

(* The rows moveLinksTx takes off the versions those tags named: the ones  *)
(* that follow the tag that moved, and are not pinned.                     *)
Carried(n, ts, id) ==
    {l \in Id : /\ links[l] # NoRow
                /\ ~links[l].pinned
                /\ links[l].tag \in ts
                /\ \E p \in Id : /\ p = Previous(n, links[l].tag, id)
                                 /\ l \in byPackage[p]}

(* Of those, the ones whose project is on the destination already.         *)
Duplicate(carried, id) ==
    {l \in carried : \E m \in byPackage[id] :
                        links[m] # NoRow /\ links[m].proj = links[l].proj}

(* A slip: the index of the version left behind is not rewritten.          *)
moveLinksHalfIndexed(carried, id) ==
    /\ links' = [l \in Id |-> IF l \in carried THEN [links[l] EXCEPT !.pkg = id]
                              ELSE links[l]]
    /\ byPackage' = [byPackage EXCEPT ![id] = @ \cup carried]
    /\ byProject' = byProject

moveLinks(carried, id) ==
    LET dropped == Duplicate(carried, id)
    IN  /\ links' = [l \in Id |->
                       IF l \in dropped THEN NoRow
                       ELSE IF l \in carried THEN [links[l] EXCEPT !.pkg = id]
                       ELSE links[l]]
        /\ byPackage' = [p \in Id |->
                           IF p = id THEN byPackage[p] \cup (carried \ dropped)
                           ELSE byPackage[p] \ carried]
        /\ byProject' = [q \in Id |-> byProject[q] \ dropped]

setTag(n, t, h, id) ==
    LET ts == Retagged(n, t)
    IN  /\ tags' = [tags EXCEPT ![n] = [u \in Tag |-> IF u \in ts THEN h ELSE @[u]]]
        /\ byName' = IF Latest \in ts THEN [byName EXCEPT ![n] = id] ELSE byName
        /\ moveLinks(Carried(n, ts, id), id)

(* InsertPackageWithFilesTagged: the record, its tag and its file rows in  *)
(* one transaction.  Content already recorded updates its record in place. *)
InsertPackageWithFilesTagged(n, h, t) ==
    LET existing == findPackageByHash(n, h)
        id       == IF existing = NoId THEN nextId ELSE existing
        startId  == IF existing = NoId THEN nextId + 1 ELSE nextId
    IN  /\ schema = Current
        /\ id \in Id /\ startId + FileCount[h] <= MaxId + 1
        /\ packages' = [packages EXCEPT ![id] = [name |-> n, hash |-> h]]
        /\ setTag(n, t, h, id)
        /\ files' = [files EXCEPT ![id] = h]
        /\ nextId' = startId + FileCount[h]
        /\ UNCHANGED <<schema, projects, byPath>>

SetTag(n, t, h) ==
    LET id == findPackageByHash(n, h)
    IN  /\ schema = Current
        /\ id # NoId
        /\ setTag(n, t, h, id)
        /\ UNCHANGED <<schema, nextId, packages, files, projects, byPath>>

DeleteTag(n, t) ==
    /\ schema = Current
    /\ t # Latest
    /\ tags' = [tags EXCEPT ![n][t] = NoRow]
    /\ UNCHANGED <<schema, nextId, packages, byName, files, projects, byPath,
                   links, byPackage, byProject>>

(* DeletePackage: the name index only if it names this record, every tag   *)
(* of the name that names its hash, every link, the record and its files.  *)
DeletePackage(i) ==
    /\ schema = Current
    /\ packages[i] # NoRow
    /\ LET n    == packages[i].name
           gone == byPackage[i]
       IN  /\ byName' = IF byName[n] = i THEN [byName EXCEPT ![n] = NoId] ELSE byName
           /\ tags' = [tags EXCEPT ![n] =
                         [t \in Tag |-> IF @[t] = packages[i].hash THEN NoRow ELSE @[t]]]
           /\ links' = [l \in Id |-> IF l \in gone THEN NoRow ELSE links[l]]
           /\ byProject' = [q \in Id |-> byProject[q] \ gone]
    /\ byPackage' = [byPackage EXCEPT ![i] = {}]
    /\ packages' = [packages EXCEPT ![i] = NoRow]
    /\ files' = [files EXCEPT ![i] = NoRow]
    /\ UNCHANGED <<schema, nextId, projects, byPath>>

(* A slip: the record rewritten from the argument, device and all.         *)
InsertProjectAfresh(q, observed) ==
    /\ schema = Current
    /\ IF byPath[q] # NoId /\ projects[byPath[q]] # NoRow
         THEN /\ projects' = [projects EXCEPT ![byPath[q]].device = observed]
              /\ UNCHANGED <<nextId, byPath>>
         ELSE /\ nextId \in Id
              /\ projects' = [projects EXCEPT ![nextId] = [path |-> q, device |-> observed]]
              /\ byPath' = [byPath EXCEPT ![q] = nextId]
              /\ nextId' = nextId + 1
    /\ UNCHANGED <<schema, packages, byName, tags, files, links, byPackage, byProject>>

(* InsertProject: a known path updates its record, and an unobserved       *)
(* device leaves the recorded one.                                         *)
InsertProject(q, observed) ==
    /\ schema = Current
    /\ IF byPath[q] # NoId /\ projects[byPath[q]] # NoRow
         THEN /\ projects' = IF observed = NoDevice THEN projects
                             ELSE [projects EXCEPT ![byPath[q]].device = observed]
              /\ UNCHANGED <<nextId, byPath>>
         ELSE /\ nextId \in Id
              /\ projects' = [projects EXCEPT ![nextId] = [path |-> q, device |-> observed]]
              /\ byPath' = [byPath EXCEPT ![q] = nextId]
              /\ nextId' = nextId + 1
    /\ UNCHANGED <<schema, packages, byName, tags, files, links, byPackage, byProject>>

SetProjectDevice(i, d) ==
    /\ schema = Current
    /\ projects[i] # NoRow
    /\ projects' = [projects EXCEPT ![i].device = d]
    /\ UNCHANGED <<schema, nextId, packages, byName, tags, files, byPath,
                   links, byPackage, byProject>>

(* deleteLinkRowTx: the package index with no row of gone in it.           *)
withoutRows(gone) == [p \in Id |-> byPackage[p] \ {l \in gone : links[l].pkg = p}]

DeleteProject(i) ==
    /\ schema = Current
    /\ projects[i] # NoRow
    /\ LET q    == projects[i].path
           gone == {l \in byProject[i] : links[l] # NoRow}
       IN  /\ byPath' = IF byPath[q] = i THEN [byPath EXCEPT ![q] = NoId] ELSE byPath
           /\ links' = [l \in Id |-> IF l \in gone THEN NoRow ELSE links[l]]
           /\ byPackage' = withoutRows(gone)
    /\ byProject' = [byProject EXCEPT ![i] = {}]
    /\ projects' = [projects EXCEPT ![i] = NoRow]
    /\ UNCHANGED <<schema, nextId, packages, byName, tags, files>>

(* InsertLink: walk the project's rows.  The row on this very record is    *)
(* rewritten in place, a row on another version of the same name is        *)
(* deleted, and when no row was rewritten a new one is inserted.           *)
InsertLink(p, q, t, pinned) ==
    LET row      == [pkg |-> p, proj |-> q, tag |-> t, pinned |-> pinned]
        held     == {l \in byProject[q] : links[l] # NoRow}
        same     == {l \in held : links[l].pkg = p}
        replaced == {l \in held : /\ links[l].pkg # p
                                  /\ packageName(links[l].pkg) = packageName(p)}
        new      == IF same = {} THEN {nextId} ELSE {}
    IN  /\ schema = Current
        /\ packages[p] # NoRow /\ projects[q] # NoRow
        /\ new \subseteq Id
        /\ links' = [l \in Id |-> IF l \in same \cup new THEN row
                                  ELSE IF l \in replaced THEN NoRow
                                  ELSE links[l]]
        /\ byPackage' = [r \in Id |->
                           withoutRows(replaced)[r] \cup (IF r = p THEN new ELSE {})]
        /\ byProject' = [byProject EXCEPT ![q] = (@ \ replaced) \cup new]
        /\ nextId' = IF same = {} THEN nextId + 1 ELSE nextId
        /\ UNCHANGED <<schema, packages, byName, tags, files, projects, byPath>>

DeleteLink(p, q) ==
    /\ schema = Current
    /\ \E l \in Id :
          /\ links[l] # NoRow /\ links[l].pkg = p /\ links[l].proj = q
          /\ links' = [links EXCEPT ![l] = NoRow]
          /\ byPackage' = [byPackage EXCEPT ![p] = @ \ {l}]
          /\ byProject' = [byProject EXCEPT ![q] = @ \ {l}]
    /\ UNCHANGED <<schema, nextId, packages, byName, tags, files, projects, byPath>>

Next ==
    \/ Migrate
    \/ \E n \in Name, h \in Hash, t \in Tag : InsertPackageWithFilesTagged(n, h, t)
    \/ \E n \in Name, h \in Hash, t \in Tag : SetTag(n, t, h)
    \/ \E n \in Name, t \in Tag : DeleteTag(n, t)
    \/ \E i \in Id : DeletePackage(i)
    \/ \E q \in Path, d \in Device \cup {NoDevice} : InsertProject(q, d)
    \/ \E i \in Id, d \in Device : SetProjectDevice(i, d)
    \/ \E i \in Id : DeleteProject(i)
    \/ \E p, q \in Id, t \in Tag, pinned \in BOOLEAN : InsertLink(p, q, t, pinned)
    \/ \E p, q \in Id : DeleteLink(p, q)

Spec == Init /\ [][Next]_vars

-----------------------------------------------------------------------------
(* What every method takes for granted of the buckets it reads.            *)

(* Both link indexes name exactly the rows that are there.  gc deletes a   *)
(* build on the strength of links_by_package (GetLinksForPackage), remove  *)
(* and pull find a link through links_by_project: a missing id is a        *)
(* consumer nobody sees, a dangling one makes every read of it an error.   *)
LinkIndexesExact ==
    \A l, i \in Id :
        /\ l \in byPackage[i] <=> links[l] # NoRow /\ links[l].pkg = i
        /\ l \in byProject[i] <=> links[l] # NoRow /\ links[l].proj = i

(* A link outlives neither the build nor the project it names.             *)
LinksNameRows ==
    \A l \in Id : links[l] # NoRow => /\ packages[links[l].pkg] # NoRow
                                      /\ projects[links[l].proj] # NoRow

(* A build is addressed by name and content hash, by one record.           *)
RecordsDistinct ==
    \A i, j \in Id : packages[i] # NoRow /\ packages[i] = packages[j] => i = j

(* bucketPackagesByName always names the version the default tag points    *)
(* at (db.go's account of DefaultTag), so a lookup by name and a lookup of *)
(* `latest` cannot differ; before migrateTx has run it is alone.           *)
NameIndexIsLatest ==
    \A n \in Name :
        IF byName[n] = NoId THEN tags[n][Latest] = NoRow
        ELSE /\ packages[byName[n]] # NoRow
             /\ packages[byName[n]].name = n
             /\ schema = Current => tags[n][Latest] = packages[byName[n]].hash

(* A tag points at a version that is stored: a tag pointing at nothing     *)
(* would resolve to nothing and, as a root of gc, protect nothing.         *)
TagsNameStoredBuilds ==
    \A n \in Name, t \in Tag :
        tags[n][t] # NoRow =>
            \E i \in Id : packages[i] = [name |-> n, hash |-> tags[n][t]]

(* A project holds one row per package name (InsertLink's invariant, which *)
(* moveLinksTx, linksOfProject, remove and retreat all assume).            *)
OneLinkPerName ==
    \A l, m \in Id :
        /\ links[l] # NoRow /\ links[m] # NoRow
        /\ links[l].proj = links[m].proj
        /\ packageName(links[l].pkg) = packageName(links[m].pkg)
        => l = m

(* A project is found under its path, and under no other key.              *)
PathIndexExact ==
    \A q \in Path, i \in Id :
        byPath[q] = i <=> projects[i] # NoRow /\ projects[i].path = q

(* The file rows describe the very generation the record names: a relink   *)
(* decides from them which files it may leave alone.                       *)
FilesDescribeBuild ==
    \A i \in Id : files[i] = IF packages[i] = NoRow THEN NoRow ELSE packages[i].hash

(* The shared counter is ahead of every id in use.                         *)
IdsAreFresh ==
    \A i \in Id : i >= nextId => /\ packages[i] = NoRow
                                 /\ projects[i] = NoRow
                                 /\ links[i] = NoRow

Consistent ==
    /\ LinkIndexesExact
    /\ LinksNameRows
    /\ RecordsDistinct
    /\ NameIndexIsLatest
    /\ TagsNameStoredBuilds
    /\ OneLinkPerName
    /\ PathIndexExact
    /\ FilesDescribeBuild
    /\ IdsAreFresh

-----------------------------------------------------------------------------
(* What a transaction may never do.                                        *)

(* An insert never lands on a row that is in use: as long as a row is      *)
(* there its id names the same build, the same project, and a link of the  *)
(* same project to the same package.                                       *)
SameRow(i) ==
    /\ packages[i] # NoRow /\ packages'[i] # NoRow => packages'[i] = packages[i]
    /\ projects[i] # NoRow /\ projects'[i] # NoRow => projects'[i].path = projects[i].path
    /\ links[i] # NoRow /\ links'[i] # NoRow =>
          /\ links'[i].proj = links[i].proj
          /\ packages'[links'[i].pkg].name = packages[links[i].pkg].name

RowsKeepTheirIdentity == [][\A i \in Id : SameRow(i)]_vars

(* A pin follows no channel: while its row lives a pinned link stays on    *)
(* the build the user chose, and no tag operation touches it (ADR-0006).   *)
PinHolds(l) ==
    links[l] # NoRow /\ links[l].pinned =>
        /\ links'[l] # NoRow => links'[l].pkg = links[l].pkg
        /\ tags' # tags /\ packages[links[l].pkg] = packages'[links[l].pkg]
              => links'[l] = links[l]

PinnedLinksStayPut == [][\A l \in Id : PinHolds(l)]_vars

(* When a tag moves off a stored build, every project that followed it     *)
(* there is on the build the tag names now, still following it.            *)
CarriedWithTag(n, t) ==
    LET from == findPackageByHash(n, tags[n][t])
        to   == findPackageByHash(n, tags[n][t])'
    IN  tags[n][t] # NoRow /\ tags'[n][t] # NoRow /\ tags'[n][t] # tags[n][t] =>
          \A l \in Id :
             links[l] # NoRow /\ links[l].pkg = from /\ links[l].tag = t /\ ~links[l].pinned =>
                links'[l] = [links[l] EXCEPT !.pkg = to]

FollowersCarried == [][schema = Current => \A n \in Name, t \in Tag : CarriedWithTag(n, t)]_vars

(* A device once observed is what lets gc tell an unmounted drive from a   *)
(* deleted project, so while a project is recorded it is not forgotten.    *)
DeviceRemembered ==
    [][\A i \in Id :
          projects[i] # NoRow /\ projects'[i] # NoRow /\ projects[i].device # NoDevice
             => projects'[i].device # NoDevice]_vars

-----------------------------------------------------------------------------
(* The registry this database implements.                                  *)

BuildOf(l) == packages[links[l].pkg]

GetPackageByName(n) == IF byName[n] = NoId THEN NoRow ELSE packages[byName[n]]
GetPackageByHash(n, h) ==
    LET i == findPackageByHash(n, h) IN IF i = NoId THEN NoRow ELSE packages[i]
ResolveTag(n, t) == IF tags[n][t] = NoRow THEN NoRow ELSE GetPackageByHash(n, tags[n][t])
GetProjectByPath(q) == IF byPath[q] = NoId THEN NoRow ELSE projects[byPath[q]]

(* A dangling id in the project's index is passed over.                    *)
GetLinksForProject(i) == IF i = NoId THEN {} ELSE {l \in byProject[i] : links[l] # NoRow}

HashOf(pkg) == IF pkg = NoRow THEN NoRow ELSE pkg.hash

(* What the lookups answer, for every argument.                            *)
storedBuilds == {b \in Name \X Hash : GetPackageByHash(b[1], b[2]) # NoRow}

channelMap ==
    [n \in Name |-> [t \in Tag |->
        HashOf(IF t = Latest THEN GetPackageByName(n) ELSE ResolveTag(n, t))]]

projectMap ==
    [q \in Path |-> IF GetProjectByPath(q) = NoRow THEN NoRow
                    ELSE GetProjectByPath(q).device]

RowsOf(q, n) == {l \in GetLinksForProject(byPath[q]) : BuildOf(l).name = n}

Consumed(l) ==
    [hash |-> BuildOf(l).hash, tag |-> links[l].tag, pinned |-> links[l].pinned]

consumesMap ==
    [q \in Path |-> [n \in Name |->
        IF RowsOf(q, n) = {} THEN NoRow
        ELSE Consumed(CHOOSE l \in RowsOf(q, n) : TRUE)]]

Registry == INSTANCE LnpmRegistry WITH
    None     <- NoRow,
    stored   <- storedBuilds,
    channel  <- channelMap,
    project  <- projectMap,
    consumes <- consumesMap

(* Seen through its lookups, every transaction is one operation of the     *)
(* registry, or changes nothing anyone can look up (migrateTx).            *)
ImplementsRegistry == Registry!Spec
=============================================================================
