--------------------------- MODULE Assistant_proofs ---------------------------
(***************************************************************************)
(* Proofs about KnowledgeBase and Assistant, for any number of ingestions, *)
(* sources, contents, readers, threads and questions.                      *)
(***************************************************************************)
EXTENDS Assistant, FiniteSetTheorems, TLAPS

-----------------------------------------------------------------------------
(* The versions of a source                                                *)

(***************************************************************************)
(* An ingestion that holds the lock of a source knows its newest version,  *)
(* and is alone with it.                                                   *)
(***************************************************************************)
LatestIsKnown ==
    \A i \in Ingesters :
        /\ step[i] # "idle" => doc[i] \in Documents
        /\ step[i] = "write" => latest[i] = Cardinality(Stored(doc[i][1]))

OneWriter ==
    \A i, j \in Ingesters :
        step[i] = "write" /\ step[j] = "write" /\ doc[i][1] = doc[j][1] => i = j

KInv ==
    /\ KnowledgeTypeOK
    /\ LatestIsKnown
    /\ OneWriter
    /\ VersionsInOrder

LEMMA DocumentParts == \A d \in Documents : d[1] \in Sources /\ d[2] \in Contents
BY DEF Documents

LEMMA StoredFinite ==
    ASSUME NEW s \in Sources
    PROVE  IsFiniteSet(Stored(s)) /\ Cardinality(Stored(s)) \in Nat
<1>1. IsFiniteSet({s} \X Contents)
  BY FS_Singleton, FS_Product, KnowledgeConstants
<1>2. Stored(s) \subseteq {s} \X Contents
  BY DEF Stored, Documents
<1>3. IsFiniteSet(Stored(s))
  BY <1>1, <1>2, FS_Subset
<1> QED
  BY <1>3, FS_CardinalityType

LEMMA MaxOfVersions ==
    ASSUME NEW n \in Nat
    PROVE  Max((1 .. n) \cup {0}) = n
<1> DEFINE S == (1 .. n) \cup {0}
<1>1. n \in S /\ \A y \in S : n >= y
  OBVIOUS
<1>2. \A x \in S : (\A y \in S : x >= y) => x = n
  BY <1>1
<1> HIDE DEF S
<1>3. Max(S) = n
  BY <1>1, <1>2 DEF Max
<1> QED
  BY <1>3 DEF S

LEMMA KnowledgeInitHolds == KnowledgeInit => KInv
<1> SUFFICES ASSUME KnowledgeInit PROVE KInv
  OBVIOUS
<1>1. KnowledgeTypeOK
  BY DEF KnowledgeInit, KnowledgeTypeOK
<1>2. \A s \in Sources : Stored(s) = {}
  BY DEF KnowledgeInit, Stored
<1>3. VersionsInOrder
  BY <1>2, FS_EmptySet DEF VersionsInOrder, KnowledgeInit
<1> QED
  BY <1>1, <1>3 DEF KInv, LatestIsKnown, OneWriter, KnowledgeInit

(***************************************************************************)
(* A step that writes no document keeps the order of the versions, and     *)
(* what the other ingestions know.                                         *)
(***************************************************************************)
LEMMA NoDocumentWritten ==
    ASSUME KInv, UNCHANGED <<version, active>>
    PROVE  /\ VersionsInOrder'
           /\ \A s : Stored(s)' = Stored(s)
BY DEF KInv, VersionsInOrder, Stored

LEMMA EndKeepsOthers ==
    ASSUME KInv, NEW i \in Ingesters, EndIngestion(i)
    PROVE  /\ step' \in [Ingesters -> {"idle", "lookup", "lock", "write"}]
           /\ doc' \in [Ingesters -> Documents \cup {NoDocument}]
           /\ granted' \in [Ingesters -> SUBSET Readers]
           /\ latest' \in [Ingesters -> Nat]
           /\ step'[i] = "idle"
           /\ \A j \in Ingesters \ {i} :
                  step'[j] = step[j] /\ doc'[j] = doc[j] /\ latest'[j] = latest[j]
BY DEF KInv, KnowledgeTypeOK, EndIngestion

LEMMA BeginKeeps ==
    ASSUME KInv, NEW i \in Ingesters, NEW d \in Documents, NEW others \in SUBSET Readers,
           BeginIngestion(i, d, others)
    PROVE  KInv'
<1>1. VersionsInOrder' /\ \A s : Stored(s)' = Stored(s)
  BY NoDocumentWritten DEF BeginIngestion, store
<1>2. Owner[d[1]] \in Readers
  BY KnowledgeConstants, DocumentParts
<1>3. KnowledgeTypeOK'
  BY <1>2 DEF KInv, KnowledgeTypeOK, BeginIngestion, store
<1>4. LatestIsKnown' /\ OneWriter'
  BY <1>1 DEF KInv, KnowledgeTypeOK, BeginIngestion, LatestIsKnown, OneWriter
<1> QED
  BY <1>1, <1>3, <1>4 DEF KInv

LEMMA LookUpKeeps ==
    ASSUME KInv, NEW i \in Ingesters, LookUp(i)
    PROVE  KInv'
<1>1. VersionsInOrder' /\ \A s : Stored(s)' = Stored(s)
  BY NoDocumentWritten DEF LookUp, Reuse, store
<1>2. CASE Reuse(i)
  <2>1. doc[i] \in Documents /\ granted[i] \in SUBSET Readers
    BY DEF LookUp, KInv, KnowledgeTypeOK, LatestIsKnown
  <2>2. readers' \in [Documents -> SUBSET Readers]
    BY <1>2, <2>1 DEF KInv, KnowledgeTypeOK, Reuse
  <2>3. KnowledgeTypeOK'
    BY <1>2, <2>2, EndKeepsOthers DEF KInv, KnowledgeTypeOK, Reuse
  <2>4. LatestIsKnown' /\ OneWriter'
    BY <1>1, <1>2, EndKeepsOthers DEF Reuse, KInv, LatestIsKnown, OneWriter
  <2> QED
    BY <1>1, <2>3, <2>4 DEF KInv
<1>3. CASE UNCHANGED <<store, doc, granted, latest>> /\ step' = [step EXCEPT ![i] = "lock"]
  <2>1. KnowledgeTypeOK'
    BY <1>3 DEF KInv, KnowledgeTypeOK, store
  <2>2. LatestIsKnown' /\ OneWriter'
    BY <1>1, <1>3 DEF LookUp, KInv, KnowledgeTypeOK, LatestIsKnown, OneWriter
  <2> QED
    BY <1>1, <2>1, <2>2 DEF KInv
<1> QED
  BY <1>2, <1>3 DEF LookUp

LEMMA LockKeeps ==
    ASSUME KInv, NEW i \in Ingesters, LockSource(i)
    PROVE  KInv'
<1> DEFINE s == doc[i][1]
           n == Cardinality(Stored(s))
<1>1. VersionsInOrder' /\ \A x : Stored(x)' = Stored(x)
  BY NoDocumentWritten DEF LockSource, store
<1>2. s \in Sources /\ n \in Nat
  BY StoredFinite, DocumentParts DEF LockSource, KInv, LatestIsKnown
<1>3. Max({version[d] : d \in Stored(s)} \cup {0}) = n
  BY <1>2, MaxOfVersions DEF KInv, VersionsInOrder
<1>4. latest' = [latest EXCEPT ![i] = n] /\ step' = [step EXCEPT ![i] = "write"]
  BY <1>3 DEF LockSource
<1>5. KnowledgeTypeOK'
  BY <1>2, <1>4 DEF LockSource, KInv, KnowledgeTypeOK, store
<1>6. LatestIsKnown'
  BY <1>1, <1>4 DEF LockSource, KInv, KnowledgeTypeOK, LatestIsKnown
<1>7. OneWriter'
  BY <1>4 DEF LockSource, SourceLocked, KInv, KnowledgeTypeOK, OneWriter
<1> QED
  BY <1>1, <1>5, <1>6, <1>7 DEF KInv

(***************************************************************************)
(* The step that matters: latest + 1 is the successor of the source's      *)
(* newest version, because nobody else can write it meanwhile.             *)
(***************************************************************************)
LEMMA NewVersion ==
    ASSUME KInv, NEW i \in Ingesters, step[i] = "write", version[doc[i]] = 0,
           version' = [version EXCEPT ![doc[i]] = latest[i] + 1],
           active' = {d \in active : d[1] # doc[i][1]} \cup {doc[i]}
    PROVE  /\ VersionsInOrder'
           /\ \A s : s # doc[i][1] => Stored(s)' = Stored(s)
<1>0. PICK e \in Documents : e = doc[i]
  BY DEF KInv, LatestIsKnown
<1> DEFINE n == Cardinality(Stored(e[1]))
<1>1. e \in Documents /\ e[1] \in Sources /\ latest[i] = n
  BY <1>0, DocumentParts DEF KInv, LatestIsKnown
<1>2. n \in Nat /\ IsFiniteSet(Stored(e[1]))
  BY <1>1, StoredFinite
<1> HIDE DEF n
<1>3. /\ version' = [version EXCEPT ![e] = n + 1]
      /\ version \in [Documents -> Nat]
      /\ active \subseteq Documents
  BY <1>0, <1>1 DEF KInv, KnowledgeTypeOK
<1>4. \A d \in Documents : version'[d] = IF d = e THEN n + 1 ELSE version[d]
  BY <1>1, <1>3
<1>5. \A s : s # e[1] => Stored(s)' = Stored(s)
  BY <1>4 DEF Stored
<1>6. Stored(e[1])' = Stored(e[1]) \cup {e} /\ e \notin Stored(e[1])
  <2>1. version[e] = 0
    BY <1>0
  <2>2. e[1] = e[1] /\ n + 1 # 0
    BY <1>2
  <2> QED
    BY <1>1, <1>4, <2>1, <2>2 DEF Stored
<1>7. Cardinality(Stored(e[1])') = n + 1
  BY <1>2, <1>6, FS_AddElement DEF n
<1>8. {version[d] : d \in Stored(e[1])} = 1 .. n
  BY <1>1 DEF KInv, VersionsInOrder, n
<1>9. {version'[d] : d \in Stored(e[1])'} = 1 .. n + 1
  <2>1. \A d \in Stored(e[1]) : version'[d] = version[d] /\ d \in Documents
    BY <1>4, <1>6 DEF Stored
  <2>2. version'[e] = n + 1
    BY <1>1, <1>4
  <2>3. {version'[d] : d \in Stored(e[1]) \cup {e}} = {version[d] : d \in Stored(e[1])} \cup {n + 1}
    BY <2>1, <2>2
  <2>4. (1 .. n) \cup {n + 1} = 1 .. n + 1
    BY <1>2
  <2> QED
    BY <1>6, <1>8, <2>3, <2>4
<1>10. {d \in active' : d[1] = e[1]} =
          {d \in Stored(e[1])' : \A x \in Stored(e[1])' : version'[x] <= version'[d]}
  <2>1. {d \in active' : d[1] = e[1]} = {e}
    BY <1>0
  <2>2. \A d \in Stored(e[1]) : version'[d] \in 1 .. n /\ d # e
    BY <1>4, <1>6, <1>8 DEF Stored
  <2>3. version'[e] = n + 1
    BY <1>1, <1>4
  <2>4. \A x \in Stored(e[1])' : version'[x] <= version'[e]
    BY <1>2, <1>6, <2>2, <2>3
  <2>5. \A d \in Stored(e[1]) : ~ (version'[e] <= version'[d])
    BY <1>2, <2>2, <2>3
  <2>6. {d \in Stored(e[1])' : \A x \in Stored(e[1])' : version'[x] <= version'[d]} = {e}
    BY <1>6, <2>4, <2>5
  <2> QED
    BY <2>1, <2>6
<1>11. \A s \in Sources \ {e[1]} :
          /\ {version'[d] : d \in Stored(s)'} = 1 .. Cardinality(Stored(s)')
          /\ {d \in active' : d[1] = s} =
                {d \in Stored(s)' : \A x \in Stored(s)' : version'[x] <= version'[d]}
  <2> SUFFICES ASSUME NEW s \in Sources, s # e[1]
               PROVE  /\ {version'[d] : d \in Stored(s)'} = 1 .. Cardinality(Stored(s)')
                      /\ {d \in active' : d[1] = s} =
                            {d \in Stored(s)' : \A x \in Stored(s)' : version'[x] <= version'[d]}
    OBVIOUS
  <2>1. Stored(s)' = Stored(s)
    BY <1>5
  <2>2. \A d \in Stored(s) : version'[d] = version[d]
    BY <1>4 DEF Stored
  <2>3. {d \in active' : d[1] = s} = {d \in active : d[1] = s}
    BY <1>0, <1>1
  <2>4. /\ {version[d] : d \in Stored(s)} = 1 .. Cardinality(Stored(s))
        /\ {d \in active : d[1] = s} =
              {d \in Stored(s) : \A x \in Stored(s) : version[x] <= version[d]}
    BY DEF KInv, VersionsInOrder
  <2> QED
    BY <2>1, <2>2, <2>3, <2>4
<1>12. VersionsInOrder'
  <2> SUFFICES ASSUME NEW s \in Sources
               PROVE  /\ {version'[d] : d \in Stored(s)'} = 1 .. Cardinality(Stored(s)')
                      /\ {d \in active' : d[1] = s} =
                            {d \in Stored(s)' : \A x \in Stored(s)' : version'[x] <= version'[d]}
    BY DEF VersionsInOrder
  <2>1. CASE s = e[1]
    BY <1>7, <1>9, <1>10, <2>1
  <2>2. CASE s # e[1]
    BY <1>11, <2>2
  <2> QED
    BY <2>1, <2>2
<1> QED
  BY <1>0, <1>5, <1>12

LEMMA WriteKeeps ==
    ASSUME KInv, NEW i \in Ingesters, WriteVersion(i)
    PROVE  KInv'
<1>1. doc[i] \in Documents /\ step[i] = "write" /\ EndIngestion(i) /\ latest[i] \in Nat
  BY DEF WriteVersion, KInv, LatestIsKnown, KnowledgeTypeOK
<1>2. CASE UNCHANGED store
  <2>1. VersionsInOrder' /\ \A s : Stored(s)' = Stored(s)
    BY <1>2, NoDocumentWritten DEF store
  <2>2. KnowledgeTypeOK'
    BY <1>1, <1>2, EndKeepsOthers DEF KInv, KnowledgeTypeOK, store
  <2>3. LatestIsKnown' /\ OneWriter'
    BY <1>1, <2>1, EndKeepsOthers DEF KInv, LatestIsKnown, OneWriter
  <2> QED
    BY <2>1, <2>2, <2>3 DEF KInv
<1>3. CASE /\ version[doc[i]] = 0
           /\ version' = [version EXCEPT ![doc[i]] = latest[i] + 1]
           /\ active' = {d \in active : d[1] # doc[i][1]} \cup {doc[i]}
           /\ readers' = [readers EXCEPT ![doc[i]] = granted[i]]
  <2>1. VersionsInOrder' /\ \A s : s # doc[i][1] => Stored(s)' = Stored(s)
    BY <1>1, <1>3, NewVersion
  <2>2. KnowledgeTypeOK'
    <3>1. version' \in [Documents -> Nat] /\ active' \subseteq Documents
      BY <1>1, <1>3 DEF KInv, KnowledgeTypeOK
    <3>2. readers' \in [Documents -> SUBSET Readers]
      BY <1>1, <1>3 DEF KInv, KnowledgeTypeOK
    <3> QED
      BY <1>1, <3>1, <3>2, EndKeepsOthers DEF KnowledgeTypeOK
  <2>3. LatestIsKnown'
    <3> SUFFICES ASSUME NEW j \in Ingesters
                 PROVE  /\ step'[j] # "idle" => doc'[j] \in Documents
                        /\ step'[j] = "write" =>
                              latest'[j] = Cardinality(Stored(doc[j][1])')
                        /\ step'[j] = "write" => doc'[j] = doc[j]
      BY DEF LatestIsKnown, Stored
    <3>1. CASE j = i
      BY <1>1, <3>1, EndKeepsOthers
    <3>2. CASE j # i
      <4>1. step'[j] = step[j] /\ doc'[j] = doc[j] /\ latest'[j] = latest[j]
        BY <1>1, <3>2, EndKeepsOthers
      <4>2. step[j] = "write" => doc[j][1] # doc[i][1]
        BY <1>1, <3>2 DEF KInv, OneWriter
      <4> QED
        BY <2>1, <4>1, <4>2 DEF KInv, LatestIsKnown
    <3> QED
      BY <3>1, <3>2
  <2>4. OneWriter'
    BY <1>1, EndKeepsOthers DEF KInv, OneWriter
  <2> QED
    BY <2>1, <2>2, <2>3, <2>4 DEF KInv
<1> QED
  BY <1>2, <1>3 DEF WriteVersion

LEMMA FailKeeps ==
    ASSUME KInv, NEW i \in Ingesters, IngestionFails(i)
    PROVE  KInv'
<1>1. VersionsInOrder' /\ \A s : Stored(s)' = Stored(s)
  BY NoDocumentWritten DEF IngestionFails, store
<1>2. KnowledgeTypeOK'
  BY EndKeepsOthers DEF IngestionFails, KInv, KnowledgeTypeOK, store
<1>3. LatestIsKnown' /\ OneWriter'
  BY <1>1, EndKeepsOthers DEF IngestionFails, KInv, LatestIsKnown, OneWriter
<1> QED
  BY <1>1, <1>2, <1>3 DEF KInv

LEMMA SameKnowledge ==
    ASSUME KInv, readers' \in [Documents -> SUBSET Readers],
           UNCHANGED <<version, active, ingestion>>
    PROVE  KInv'
<1>1. VersionsInOrder' /\ \A s : Stored(s)' = Stored(s)
  BY NoDocumentWritten
<1> QED
  BY <1>1 DEF KInv, KnowledgeTypeOK, LatestIsKnown, OneWriter, ingestion

LEMMA KnowledgeStep == KInv /\ [KnowledgeNext]_knowledge => KInv'
<1> SUFFICES ASSUME KInv, [KnowledgeNext]_knowledge PROVE KInv'
  OBVIOUS
<1>1. CASE UNCHANGED knowledge
  BY <1>1, SameKnowledge DEF knowledge, ingestion, KInv, KnowledgeTypeOK
<1>2. CASE \E d \in Documents, p \in Readers : Revoke(d, p)
  BY <1>2, SameKnowledge DEF Revoke, KInv, KnowledgeTypeOK
<1> QED
  BY <1>1, <1>2, BeginKeeps, LookUpKeeps, LockKeeps, WriteKeeps, FailKeeps
     DEF KnowledgeNext

-----------------------------------------------------------------------------
(* The knowledge base implements the history of its documents              *)

(***************************************************************************)
(* Whoever ingests a document is among those it is to be readable by.      *)
(***************************************************************************)
OwnerIsGranted ==
    \A i \in Ingesters : step[i] # "idle" => Owner[doc[i][1]] \in granted[i]

HInv == KInv /\ OwnerIsGranted

LEMMA HInvInit == KnowledgeInit => HInv
BY KnowledgeInitHolds DEF HInv, OwnerIsGranted, KnowledgeInit

LEMMA EndKeepsGrants ==
    ASSUME HInv, NEW i \in Ingesters, EndIngestion(i)
    PROVE  OwnerIsGranted'
BY DEF HInv, OwnerIsGranted, EndIngestion, KInv, KnowledgeTypeOK

LEMMA HInvStep == HInv /\ [KnowledgeNext]_knowledge => HInv'
<1> SUFFICES ASSUME HInv, [KnowledgeNext]_knowledge PROVE OwnerIsGranted'
  BY KnowledgeStep DEF HInv
<1>1. CASE UNCHANGED <<step, doc, granted>>
  BY <1>1 DEF HInv, OwnerIsGranted
<1>2. CASE \E d \in Documents, p \in Readers : Revoke(d, p)
  BY <1>1, <1>2 DEF Revoke, ingestion
<1>3. ASSUME NEW i \in Ingesters, NEW d \in Documents,
             NEW others \in SUBSET Readers, BeginIngestion(i, d, others)
      PROVE  OwnerIsGranted'
  BY <1>3 DEF BeginIngestion, HInv, OwnerIsGranted, KInv, KnowledgeTypeOK
<1>4. ASSUME NEW i \in Ingesters, LookUp(i) \/ LockSource(i)
      PROVE  OwnerIsGranted'
  <2>1. CASE EndIngestion(i)
    BY <2>1, EndKeepsGrants
  <2>2. CASE UNCHANGED <<doc, granted>>
    <3>1. \A j \in Ingesters : step'[j] # "idle" => step[j] # "idle"
      BY <1>4 DEF LookUp, Reuse, EndIngestion, LockSource, HInv, KInv, KnowledgeTypeOK
    <3> QED
      BY <2>2, <3>1 DEF HInv, OwnerIsGranted
  <2> QED
    BY <1>4, <2>1, <2>2 DEF LookUp, Reuse, LockSource
<1>5. ASSUME NEW i \in Ingesters, WriteVersion(i) \/ IngestionFails(i)
      PROVE  OwnerIsGranted'
  BY <1>5, EndKeepsGrants DEF WriteVersion, IngestionFails
<1> QED
  BY <1>1, <1>2, <1>3, <1>4, <1>5 DEF KnowledgeNext, knowledge

LEMMA SameCardinality == \A S : History!Cardinality(S) = Cardinality(S)
BY DEF History!Cardinality, Cardinality

LEMMA PublishedIsStored ==
    /\ History!Documents = Documents
    /\ \A s : History!Published(s) = Stored(s)
BY DEF History!Documents, History!Published, Documents, Stored

(***************************************************************************)
(* Only three steps are seen from outside: the write that commits a new    *)
(* version publishes it, the look-up that finds the content shares it, and *)
(* a revocation withdraws it.                                              *)
(***************************************************************************)
LEMMA WriteIsPublish ==
    ASSUME HInv, NEW i \in Ingesters, step[i] = "write", version[doc[i]] = 0,
           version' = [version EXCEPT ![doc[i]] = latest[i] + 1],
           active' = {d \in active : d[1] # doc[i][1]} \cup {doc[i]},
           readers' = [readers EXCEPT ![doc[i]] = granted[i]]
    PROVE  History!Next
<1>1. doc[i] \in Documents /\ granted[i] \in SUBSET Readers
  BY DEF HInv, KInv, KnowledgeTypeOK, LatestIsKnown
<1>2. latest[i] = Cardinality(History!Published(doc[i][1]))
  BY PublishedIsStored DEF HInv, KInv, LatestIsKnown
<1>3. Owner[doc[i][1]] \in granted[i]
  BY DEF HInv, OwnerIsGranted
<1>4. version' = [version EXCEPT ![doc[i]] = Cardinality(History!Published(doc[i][1])) + 1]
  BY <1>2
<1>5. History!Publish(doc[i], granted[i])
  BY <1>3, <1>4, SameCardinality DEF History!Publish
<1> QED
  BY <1>1, <1>5, PublishedIsStored DEF History!Next

LEMMA ReuseIsShare ==
    ASSUME HInv, NEW i \in Ingesters, step[i] = "lookup", Reuse(i)
    PROVE  History!Next
<1>1. doc[i] \in Documents /\ granted[i] \in SUBSET Readers
  BY DEF HInv, KInv, KnowledgeTypeOK, LatestIsKnown
<1>2. readers' = [readers EXCEPT ![doc[i]] = readers[doc[i]] \cup granted[i]]
  BY DEF Reuse
<1>3. \E kept \in SUBSET readers[doc[i]] :
         readers' = [readers EXCEPT ![doc[i]] = kept \cup granted[i]]
  <2> WITNESS readers[doc[i]] \in SUBSET readers[doc[i]]
  <2> QED
    BY <1>2
<1>4. History!Share(doc[i], granted[i])
  BY <1>1, <1>3 DEF Reuse, HInv, OwnerIsGranted, History!Share
<1> QED
  BY <1>1, <1>4, PublishedIsStored DEF History!Next

LEMMA RevokeIsWithdraw ==
    ASSUME NEW d \in Documents, NEW p \in Readers, Revoke(d, p)
    PROVE  History!Next
<1>1. History!Withdraw(d, p)
  BY DEF Revoke, History!Withdraw
<1> QED
  BY <1>1, PublishedIsStored DEF History!Next

LEMMA HistoryStep ==
    HInv /\ [KnowledgeNext]_knowledge => [History!Next]_(History!documents)
<1> SUFFICES ASSUME HInv, [KnowledgeNext]_knowledge
             PROVE  History!Next \/ UNCHANGED store
  BY DEF store, History!documents
<1>1. ASSUME NEW i \in Ingesters, LookUp(i)
      PROVE  History!Next \/ UNCHANGED store
  BY <1>1, ReuseIsShare DEF LookUp
<1>2. ASSUME NEW i \in Ingesters, WriteVersion(i)
      PROVE  History!Next \/ UNCHANGED store
  BY <1>2, WriteIsPublish DEF WriteVersion
<1>3. ASSUME NEW d \in Documents, NEW p \in Readers, Revoke(d, p)
      PROVE  History!Next
  BY <1>3, RevokeIsWithdraw
<1>4. ASSUME NEW i \in Ingesters, LockSource(i) \/ IngestionFails(i)
      PROVE  UNCHANGED store
  BY <1>4 DEF LockSource, IngestionFails
<1>5. ASSUME NEW i \in Ingesters, NEW d \in Documents, NEW others,
             BeginIngestion(i, d, others)
      PROVE  UNCHANGED store
  BY <1>5 DEF BeginIngestion
<1> QED
  BY <1>1, <1>2, <1>3, <1>4, <1>5 DEF KnowledgeNext, knowledge, store

LEMMA HistoryInit == KnowledgeInit => History!Init
BY PublishedIsStored DEF KnowledgeInit, History!Init

(***************************************************************************)
(* The knowledge base implements the history of its documents, whatever    *)
(* ingestions overlap and wherever one fails (knowledge.py).               *)
(***************************************************************************)
THEOREM KnowledgeIsAHistory == KnowledgeSpec => ImplementsHistory
<1>1. KnowledgeInit => HInv /\ History!Init
  BY HInvInit, HistoryInit
<1>2. HInv /\ [KnowledgeNext]_knowledge => HInv' /\ [History!Next]_(History!documents)
  BY HInvStep, HistoryStep
<1> QED
  BY <1>1, <1>2, PTL DEF KnowledgeSpec, ImplementsHistory, History!Spec

-----------------------------------------------------------------------------
(* Types of the assistant                                                  *)

Stages == {"idle", "cache", "authorize", "lexical", "semantic", "budget",
           "generate", "trace", "store"}

CallTypes ==
    /\ stage \in [Threads -> Stages]
    /\ asker \in [Threads -> Askers \cup {Nobody}]
    /\ question \in [Threads -> Questions \cup {NoQuestion}]
    /\ evidence \in [Threads -> SUBSET Documents]
    /\ result \in [Threads -> Answers]

TableTypes ==
    /\ cache \in [Askers \X Questions -> Answers]
    /\ asked \in [Askers -> Nat]
    /\ spent \in [Askers -> Nat]

LEMMA TypeParts ==
    TypeOK <=> /\ KnowledgeTypeOK
               /\ CallTypes
               /\ TableTypes
               /\ readable \in [Threads -> SUBSET Documents]
BY DEF TypeOK, CallTypes, TableTypes, Stages

LEMMA CostTypes == Cost \in Nat /\ Cost # 0 /\ TokenBudget \in Nat /\ TokenBudget # 0
BY AssistantConstants

LEMMA AnswerTypes ==
    /\ NoAnswer \in Answers
    /\ Refused(0) \in Answers
    /\ Refused(Cost) \in Answers
BY DEF NoAnswer, Refused, Generated, Answers

LEMMA CachedType ==
    ASSUME NEW a \in Answers
    PROVE  /\ [a EXCEPT !.source = "cached"] \in Answers
           /\ [a EXCEPT !.source = "cached"].cites = a.cites
           /\ [a EXCEPT !.source = "cached"].status = a.status
           /\ [a EXCEPT !.source = "cached"].cost = a.cost
BY DEF Answers

LEMMA FreeType ==
    ASSUME NEW a \in Answers
    PROVE  /\ [a EXCEPT !.cost = 0] \in Answers
           /\ [a EXCEPT !.cost = 0].cites = a.cites
           /\ [a EXCEPT !.cost = 0].status = a.status
           /\ [a EXCEPT !.cost = 0].cost = 0
BY DEF Answers

(***************************************************************************)
(* An answer has a citation, and what is not an answer has none.           *)
(***************************************************************************)
Sound(a) == a.status \in {"answered", "degraded"} <=> a.cites # {}

LEMMA DraftTypes ==
    ASSUME NEW t \in Threads, evidence[t] \subseteq Documents, NEW a \in Drafts(t)
    PROVE  a \in Answers /\ Sound(a) /\ a.cites \subseteq evidence[t]
<1>1. CASE a \in {Refused(0), Refused(Cost), Generated("unavailable", {}, 0)}
  BY <1>1 DEF Refused, Generated, Answers, Sound
<1>2. CASE a \in {Generated("answered", c, Cost) : c \in Citations(t)}
  <2>1. PICK c \in Citations(t) : a = Generated("answered", c, Cost)
    BY <1>2
  <2>2. c \in SUBSET Documents /\ c # {} /\ c \subseteq evidence[t]
    BY DEF Citations, CitationsValid
  <2> QED
    BY <2>1, <2>2 DEF Generated, Answers, Sound
<1>3. CASE a \in {Generated("degraded", {d}, 0) : d \in evidence[t]}
  <2>1. PICK d \in evidence[t] : a = Generated("degraded", {d}, 0)
    BY <1>3
  <2> QED
    BY <2>1 DEF Generated, Answers, Sound
<1> QED
  BY <1>1, <1>2, <1>3 DEF Drafts

LEMMA EndTypes ==
    ASSUME CallTypes, NEW t \in Threads, End(t)
    PROVE  CallTypes'
BY AnswerTypes DEF CallTypes, End, Goto, Stages

(***************************************************************************)
(* The thread that steps is in a call, with an asker and a question.       *)
(***************************************************************************)
InCall(t) == stage[t] # "idle" => asker[t] \in Askers /\ question[t] \in Questions

LEMMA CallStepTypes ==
    ASSUME TypeOK, NEW t \in Threads, InCall(t), AnswerStep(t)
    PROVE  CallTypes' /\ TableTypes' /\ UNCHANGED knowledge
<1>0. CallTypes /\ TableTypes /\ KnowledgeTypeOK
  BY TypeParts
<1>1. CASE \E p \in Askers, q \in Questions : Ask(t, p, q)
  BY <1>0, <1>1 DEF CallTypes, TableTypes, Ask, Goto, Stages, tables
<1>2. CASE ReadCache(t)
  <2>1. cache[<<asker[t], question[t]>>] \in Answers
    BY <1>0, <1>2 DEF ReadCache, InCall, TableTypes
  <2>2. result' \in [Threads -> Answers]
    BY <1>0, <1>2, <2>1, CachedType DEF ReadCache, CallTypes
  <2> QED
    BY <1>0, <1>2, <2>2 DEF ReadCache, CallTypes, TableTypes, Goto, Stages, tables
<1>3. CASE AuthorizeCached(t)
  BY <1>0, <1>3, AnswerTypes DEF AuthorizeCached, CallTypes, TableTypes, Goto, Stages, tables
<1>4. CASE SearchLexical(t)
  <2>1. Found(t, Lexical) \subseteq Documents
    BY <1>0 DEF Found, Visible, KnowledgeTypeOK
  <2> QED
    BY <1>0, <1>4, <2>1 DEF SearchLexical, CallTypes, TableTypes, Goto, Stages, tables
<1>5. CASE SearchSemantic(t)
  <2>1. Found(t, Semantic) \subseteq Documents
    BY <1>0 DEF Found, Visible, KnowledgeTypeOK
  <2>2. evidence' \in [Threads -> SUBSET Documents]
    BY <1>0, <1>5, <2>1 DEF SearchSemantic, CallTypes
  <2> QED
    BY <1>0, <1>5, <2>2, AnswerTypes
       DEF SearchSemantic, CallTypes, TableTypes, Goto, Stages, tables
<1>6. CASE CheckBudget(t)
  BY <1>0, <1>6, EndTypes DEF CheckBudget, CallTypes, TableTypes, Goto, Stages, tables
<1>7. CASE Generate(t)
  <2>1. PICK a \in Drafts(t) : result' = [result EXCEPT ![t] = a]
    BY <1>7 DEF Generate
  <2>2. a \in Answers
    BY <1>0, DraftTypes DEF CallTypes
  <2> QED
    BY <1>0, <1>7, <2>1, <2>2 DEF Generate, CallTypes, TableTypes, Goto, Stages, tables
<1>8. CASE PersistTrace(t)
  <2>1. result[t].cost \in Nat /\ asker[t] \in Askers
    BY <1>0, <1>8, CostTypes DEF PersistTrace, CallTypes, Answers, InCall
  <2>2. asked' \in [Askers -> Nat]
    BY <1>0, <1>8, <2>1 DEF PersistTrace, TableTypes
  <2>3. spent' \in [Askers -> Nat]
    BY <1>0, <1>8, <2>1 DEF PersistTrace, TableTypes
  <2>4. CallTypes'
    BY <1>0, <1>8, EndTypes DEF PersistTrace, CallTypes, Goto, Stages
  <2> QED
    BY <1>0, <1>8, <2>2, <2>3, <2>4 DEF PersistTrace, TableTypes
<1>9. CASE StoreCachedAnswer(t)
  <2>1. result[t] \in Answers /\ <<asker[t], question[t]>> \in Askers \X Questions
    BY <1>0, <1>9 DEF StoreCachedAnswer, CallTypes, InCall
  <2>2. cache' \in [Askers \X Questions -> Answers]
    BY <1>0, <1>9, <2>1, FreeType DEF StoreCachedAnswer, TableTypes
  <2> QED
    BY <1>0, <1>9, <2>2, EndTypes DEF StoreCachedAnswer, TableTypes
<1>10. CASE AnswerFails(t)
  BY <1>0, <1>10, EndTypes DEF AnswerFails, TableTypes, tables
<1> QED
  BY <1>1, <1>2, <1>3, <1>4, <1>5, <1>6, <1>7, <1>8, <1>9, <1>10
     DEF AnswerStep, Ask, ReadCache, AuthorizeCached, SearchLexical, SearchSemantic,
         CheckBudget, Generate, PersistTrace, StoreCachedAnswer, AnswerFails

LEMMA ClockTypes ==
    ASSUME TypeOK, ClockStep
    PROVE  TableTypes' /\ UNCHANGED <<knowledge, call>>
<1>0. TableTypes
  BY TypeParts
<1>1. CASE \E e \in Askers \X Questions : EntryExpires(e)
  BY <1>0, <1>1, AnswerTypes DEF EntryExpires, TableTypes
<1>2. CASE \E p \in Askers : MinutePasses(p)
  BY <1>0, <1>2 DEF MinutePasses, TableTypes
<1>3. CASE DayPasses
  BY <1>0, <1>3 DEF DayPasses, TableTypes
<1> QED
  BY <1>1, <1>2, <1>3 DEF ClockStep, EntryExpires, MinutePasses, DayPasses

-----------------------------------------------------------------------------
(* The inductive invariant of the assistant                                *)

(***************************************************************************)
(* What a call has found its asker could read during the call; the answer  *)
(* it is about to record is sound and cites no more; a cached answer is    *)
(* sound and has cost nothing.                                             *)
(***************************************************************************)
CallHolds(t) ==
    /\ InCall(t)
    /\ evidence[t] \subseteq readable[t]
    /\ stage[t] = "idle" => evidence[t] = {}
    /\ stage[t] = "authorize" => Sound(result[t]) /\ result[t].cost = 0
    /\ stage[t] \in {"trace", "store"} => Sound(result[t]) /\ result[t].cites \subseteq readable[t]

CacheHolds ==
    \A e \in Askers \X Questions : Sound(cache[e]) /\ cache[e].cost = 0

AInv ==
    /\ TypeOK
    /\ KInv
    /\ \A t \in Threads : CallHolds(t)
    /\ CacheHolds

LEMMA NoAnswerSound == Sound(NoAnswer) /\ NoAnswer.cost = 0 /\ NoAnswer.cites = {}
BY DEF Sound, NoAnswer

LEMMA InitAInv == Init => AInv
<1> SUFFICES ASSUME Init PROVE AInv
  OBVIOUS
<1>1. KInv
  BY KnowledgeInitHolds DEF Init
<1>2. TypeOK
  BY <1>1, AnswerTypes DEF Init, TypeOK, KInv
<1>3. CacheHolds
  BY NoAnswerSound DEF Init, CacheHolds
<1>4. \A t \in Threads : CallHolds(t)
  BY DEF Init, CallHolds, InCall
<1> QED
  BY <1>1, <1>2, <1>3, <1>4 DEF AInv

(***************************************************************************)
(* The history variable grows during a call, with what can be read now.    *)
(***************************************************************************)
LEMMA WatchGrows ==
    ASSUME Watch, NEW t \in Threads, stage'[t] # "idle"
    PROVE  /\ readable[t] \subseteq readable'[t]
           /\ {d \in active' : asker'[t] \in readers'[d]} \subseteq readable'[t]
BY DEF Watch

LEMMA WatchTypes ==
    ASSUME TypeOK, KnowledgeTypeOK', Watch
    PROVE  readable' \in [Threads -> SUBSET Documents]
<1>1. active' \subseteq Documents
  BY DEF KnowledgeTypeOK
<1>2. \A t \in Threads : readable'[t] \subseteq Documents
  BY <1>1 DEF Watch, TypeOK
<1> QED
  BY <1>2 DEF Watch

LEMMA SameCall ==
    ASSUME Watch, NEW t \in Threads, CallHolds(t),
           stage'[t] = stage[t], asker'[t] = asker[t], question'[t] = question[t],
           evidence'[t] = evidence[t], result'[t] = result[t]
    PROVE  CallHolds(t)'
<1>1. CASE stage[t] = "idle"
  BY <1>1 DEF CallHolds, InCall
<1>2. CASE stage[t] # "idle"
  BY <1>2, WatchGrows DEF CallHolds, InCall
<1> QED
  BY <1>1, <1>2

OthersCall(t) ==
    \A u \in Threads \ {t} :
        /\ stage'[u] = stage[u] /\ asker'[u] = asker[u] /\ question'[u] = question[u]
        /\ evidence'[u] = evidence[u] /\ result'[u] = result[u]

LEMMA StepIsOneCall ==
    ASSUME CallTypes, NEW t \in Threads, AnswerStep(t)
    PROVE  OthersCall(t)
<1> USE DEF CallTypes, OthersCall, Goto, End
<1>1. CASE \E p \in Askers, q \in Questions : Ask(t, p, q)
  BY <1>1 DEF Ask
<1>2. CASE ReadCache(t) \/ AuthorizeCached(t)
  BY <1>2 DEF ReadCache, AuthorizeCached
<1>3. CASE SearchLexical(t) \/ SearchSemantic(t)
  BY <1>3 DEF SearchLexical, SearchSemantic
<1>4. CASE CheckBudget(t) \/ Generate(t)
  BY <1>4 DEF CheckBudget, Generate
<1>5. CASE PersistTrace(t) \/ StoreCachedAnswer(t) \/ AnswerFails(t)
  BY <1>5 DEF PersistTrace, StoreCachedAnswer, AnswerFails
<1> QED
  BY <1>1, <1>2, <1>3, <1>4, <1>5 DEF AnswerStep

LEMMA EndHolds ==
    ASSUME CallTypes, NEW t \in Threads, End(t)
    PROVE  CallHolds(t)'
<1>1. stage'[t] = "idle" /\ evidence'[t] = {}
  BY DEF CallTypes, End, Goto
<1> QED
  BY <1>1 DEF CallHolds, InCall

LEMMA CallStepHolds ==
    ASSUME AInv, NEW t \in Threads, AnswerStep(t), Watch
    PROVE  CallHolds(t)' /\ CacheHolds'
<1>0. /\ CallTypes /\ TableTypes /\ KnowledgeTypeOK /\ CallHolds(t) /\ CacheHolds
      /\ UNCHANGED knowledge
  BY TypeParts, CallStepTypes DEF AInv, CallHolds
<1>k. active' = active /\ readers' = readers
  BY <1>0 DEF knowledge
<1> USE DEF CallTypes, Goto
<1>1. CASE \E p \in Askers, q \in Questions : Ask(t, p, q)
  <2>1. PICK p \in Askers, q \in Questions : Ask(t, p, q)
    BY <1>1
  <2>2. /\ stage'[t] = "cache" /\ asker'[t] = p /\ question'[t] = q
        /\ evidence'[t] = evidence[t] /\ evidence[t] = {}
        /\ UNCHANGED cache
    BY <1>0, <2>1 DEF Ask, CallHolds, tables
  <2> QED
    BY <1>0, <2>2 DEF CallHolds, InCall, CacheHolds
<1>2. CASE ReadCache(t)
  <2> DEFINE entry == cache[<<asker[t], question[t]>>]
  <2>1. entry \in Answers /\ Sound(entry) /\ entry.cost = 0
    BY <1>0, <1>2 DEF ReadCache, CallHolds, InCall, TableTypes, CacheHolds
  <2>2. /\ asker'[t] = asker[t] /\ question'[t] = question[t] /\ evidence'[t] = evidence[t]
        /\ UNCHANGED cache
        /\ \/ stage'[t] = "lexical"
           \/ stage'[t] = "authorize" /\ result'[t] = [entry EXCEPT !.source = "cached"]
    BY <1>0, <1>2 DEF ReadCache, tables
  <2> HIDE DEF entry
  <2>3. stage'[t] = "authorize" => Sound(result'[t]) /\ result'[t].cost = 0
    BY <2>1, <2>2, CachedType DEF Sound
  <2>4. readable[t] \subseteq readable'[t]
    BY <2>2, WatchGrows
  <2> QED
    BY <1>0, <1>2, <2>2, <2>3, <2>4 DEF ReadCache, CallHolds, InCall, CacheHolds
<1>3. CASE AuthorizeCached(t)
  <2>1. /\ stage[t] = "authorize" /\ stage'[t] \in {"trace", "lexical"}
        /\ asker'[t] = asker[t] /\ question'[t] = question[t] /\ evidence'[t] = evidence[t]
        /\ UNCHANGED cache
        /\ stage'[t] = "trace" => result'[t] = result[t] /\ StillAuthorized(t)
    BY <1>0, <1>3 DEF AuthorizeCached, tables
  <2>2. /\ readable[t] \subseteq readable'[t]
        /\ {d \in active' : asker'[t] \in readers'[d]} \subseteq readable'[t]
    BY <2>1, WatchGrows
  <2>3. stage'[t] = "trace" => result'[t].cites \subseteq readable'[t]
    BY <1>k, <2>1, <2>2 DEF StillAuthorized, Visible
  <2> QED
    BY <1>0, <2>1, <2>2, <2>3 DEF CallHolds, InCall, CacheHolds
<1>4. CASE SearchLexical(t)
  <2>1. /\ stage[t] = "lexical" /\ stage'[t] = "semantic"
        /\ asker'[t] = asker[t] /\ question'[t] = question[t]
        /\ evidence'[t] = Found(t, Lexical)
        /\ UNCHANGED cache
    BY <1>0, <1>4 DEF SearchLexical, tables
  <2>2. {d \in active' : asker'[t] \in readers'[d]} \subseteq readable'[t]
    BY <2>1, WatchGrows
  <2>3. evidence'[t] \subseteq readable'[t]
    BY <1>k, <2>1, <2>2 DEF Found, Visible
  <2> QED
    BY <1>0, <2>1, <2>3 DEF CallHolds, InCall, CacheHolds
<1>5. CASE SearchSemantic(t)
  <2>1. /\ stage[t] = "semantic" /\ stage'[t] \in {"trace", "budget"}
        /\ asker'[t] = asker[t] /\ question'[t] = question[t]
        /\ evidence'[t] = evidence[t] \cup Found(t, Semantic)
        /\ UNCHANGED cache
        /\ stage'[t] = "trace" => result'[t] = Refused(0)
    BY <1>0, <1>5 DEF SearchSemantic, tables
  <2>2. /\ readable[t] \subseteq readable'[t]
        /\ {d \in active' : asker'[t] \in readers'[d]} \subseteq readable'[t]
    BY <2>1, WatchGrows
  <2>3. evidence'[t] \subseteq readable'[t]
    BY <1>0, <1>k, <2>1, <2>2 DEF Found, Visible, CallHolds
  <2>4. Sound(Refused(0)) /\ Refused(0).cites = {}
    BY DEF Sound, Refused, Generated
  <2> QED
    BY <1>0, <2>1, <2>3, <2>4 DEF CallHolds, InCall, CacheHolds
<1>6. CASE CheckBudget(t)
  <2>1. CASE End(t)
    BY <1>0, <1>6, <2>1, EndHolds DEF CheckBudget, CacheHolds, tables
  <2>2. CASE Goto(t, "generate") /\ UNCHANGED <<asker, question, evidence, result>>
    <3>1. stage'[t] = "generate"
      BY <1>0, <2>2
    <3> QED
      BY <1>0, <1>6, <2>2, <3>1, WatchGrows
         DEF CheckBudget, CallHolds, InCall, CacheHolds, tables
  <2> QED
    BY <1>6, <2>1, <2>2 DEF CheckBudget
<1>7. CASE Generate(t)
  <2>1. PICK a \in Drafts(t) : result' = [result EXCEPT ![t] = a]
    BY <1>7 DEF Generate
  <2>2. a \in Answers /\ Sound(a) /\ a.cites \subseteq evidence[t]
    BY <1>0, DraftTypes
  <2>3. /\ stage[t] = "generate" /\ stage'[t] = "trace" /\ result'[t] = a
        /\ UNCHANGED <<asker, question, evidence, cache>>
    BY <1>0, <1>7, <2>1 DEF Generate, tables
  <2>4. readable[t] \subseteq readable'[t]
    BY <2>3, WatchGrows
  <2> QED
    BY <1>0, <2>2, <2>3, <2>4 DEF CallHolds, InCall, CacheHolds
<1>8. CASE PersistTrace(t)
  <2>1. CASE End(t)
    BY <1>0, <1>8, <2>1, EndHolds DEF PersistTrace, CacheHolds
  <2>2. CASE Goto(t, "store") /\ UNCHANGED <<asker, question, evidence, result>>
    <3>1. stage'[t] = "store" /\ stage[t] = "trace"
      BY <1>0, <1>8, <2>2 DEF PersistTrace
    <3> QED
      BY <1>0, <1>8, <2>2, <3>1, WatchGrows DEF PersistTrace, CallHolds, InCall, CacheHolds
  <2> QED
    BY <1>8, <2>1, <2>2 DEF PersistTrace
<1>9. CASE StoreCachedAnswer(t)
  <2>1. CallHolds(t)'
    BY <1>0, <1>9, EndHolds DEF StoreCachedAnswer
  <2>2. result[t] \in Answers /\ Sound(result[t])
    BY <1>0, <1>9 DEF StoreCachedAnswer, CallHolds
  <2>3. \A e \in Askers \X Questions :
           cache'[e] = cache[e] \/ cache'[e] = [result[t] EXCEPT !.cost = 0]
    BY <1>0, <1>9 DEF StoreCachedAnswer, TableTypes
  <2>4. CacheHolds'
    BY <1>0, <2>2, <2>3, FreeType DEF CacheHolds, Sound
  <2> QED
    BY <2>1, <2>4
<1>10. CASE AnswerFails(t)
  BY <1>0, <1>10, EndHolds DEF AnswerFails, CacheHolds, tables
<1> QED
  BY <1>1, <1>2, <1>3, <1>4, <1>5, <1>6, <1>7, <1>8, <1>9, <1>10 DEF AnswerStep

LEMMA ClockHolds ==
    ASSUME AInv, ClockStep
    PROVE  CacheHolds'
<1>0. TableTypes /\ CacheHolds
  BY TypeParts DEF AInv
<1>1. CASE \E e \in Askers \X Questions : EntryExpires(e)
  BY <1>0, <1>1, NoAnswerSound DEF EntryExpires, TableTypes, CacheHolds
<1>2. CASE \E p \in Askers : MinutePasses(p)
  BY <1>0, <1>2 DEF MinutePasses, CacheHolds
<1>3. CASE DayPasses
  BY <1>0, <1>3 DEF DayPasses, CacheHolds
<1> QED
  BY <1>1, <1>2, <1>3 DEF ClockStep

LEMMA SameKInv == KInv /\ UNCHANGED knowledge => KInv'
BY KnowledgeStep

LEMMA NextAInv == AInv /\ [Next]_vars => AInv'
<1> SUFFICES ASSUME AInv, [Next]_vars PROVE AInv'
  OBVIOUS
<1>0. TypeOK /\ KInv /\ CacheHolds /\ CallTypes /\ TableTypes
  BY TypeParts DEF AInv
<1>1. CASE KnowledgeNext /\ UNCHANGED <<call, tables>> /\ Watch
  <2>1. KInv'
    BY <1>0, <1>1, KnowledgeStep
  <2>2. \A t \in Threads : CallHolds(t)'
    BY <1>1, SameCall DEF AInv, call
  <2>3. CallTypes' /\ TableTypes' /\ CacheHolds'
    BY <1>0, <1>1 DEF CallTypes, TableTypes, CacheHolds, call, tables
  <2>4. TypeOK'
    BY <1>0, <1>1, <2>1, <2>3, TypeParts, WatchTypes DEF KInv, TypeOK, CallTypes, TableTypes, Stages
  <2> QED
    BY <2>1, <2>2, <2>3, <2>4 DEF AInv
<1>2. CASE \E t \in Threads : AnswerStep(t) /\ Watch
  <2>1. PICK t \in Threads : AnswerStep(t) /\ Watch
    BY <1>2
  <2>2. CallTypes' /\ TableTypes' /\ KInv'
    BY <1>0, <2>1, CallStepTypes, SameKInv DEF AInv, CallHolds
  <2>3. CallHolds(t)' /\ CacheHolds'
    BY <2>1, CallStepHolds
  <2>4. \A u \in Threads \ {t} : CallHolds(u)'
    BY <1>0, <2>1, StepIsOneCall, SameCall DEF AInv, OthersCall
  <2>5. TypeOK'
    BY <1>0, <2>1, <2>2, WatchTypes DEF KInv, TypeOK, CallTypes, TableTypes, Stages
  <2> QED
    BY <2>2, <2>3, <2>4, <2>5 DEF AInv
<1>3. CASE ClockStep /\ Watch
  <2>1. TableTypes' /\ CacheHolds' /\ UNCHANGED <<knowledge, call>>
    BY <1>0, <1>3, ClockTypes, ClockHolds
  <2>2. \A t \in Threads : CallHolds(t)'
    BY <1>3, <2>1, SameCall DEF AInv, call
  <2>3. KInv' /\ CallTypes'
    BY <1>0, <2>1, SameKInv DEF CallTypes, call
  <2>4. TypeOK'
    BY <1>0, <1>3, <2>1, <2>3, WatchTypes DEF KInv, TypeOK, CallTypes, TableTypes, Stages
  <2> QED
    BY <2>1, <2>2, <2>3, <2>4 DEF AInv
<1>4. CASE UNCHANGED vars
  <2>1. KInv'
    BY <1>0, <1>4, SameKInv DEF vars
  <2> QED
    BY <1>0, <1>4, <2>1 DEF vars, call, tables, AInv, KInv, TypeOK, CallHolds, InCall, CacheHolds
<1> QED
  BY <1>1, <1>2, <1>3, <1>4 DEF Next

LEMMA Invariance == Spec => []AInv
BY InitAInv, NextAInv, PTL DEF Spec

(***************************************************************************)
(* Documents, calls, cache, traces and budget keep their types.            *)
(***************************************************************************)
THEOREM TypeCorrect == Spec => []TypeOK
<1>1. AInv => TypeOK
  BY DEF AInv
<1> QED
  BY <1>1, Invariance, PTL

(***************************************************************************)
(* Any number of concurrent ingestions of a source leave it with versions  *)
(* 1 to n and the newest one active: the advisory lock makes latest + 1    *)
(* the successor of what is stored.                                        *)
(***************************************************************************)
THEOREM VersionsAreInOrder == Spec => []VersionsInOrder
<1>1. AInv => VersionsInOrder
  BY DEF AInv, KInv
<1> QED
  BY <1>1, Invariance, PTL

LEMMA KnowledgeSteps == AInv /\ [Next]_vars => [KnowledgeNext]_knowledge
<1> SUFFICES ASSUME AInv, [Next]_vars PROVE KnowledgeNext \/ UNCHANGED knowledge
  OBVIOUS
<1>1. CASE ClockStep
  BY <1>1 DEF ClockStep, EntryExpires, MinutePasses, DayPasses
<1>2. ASSUME NEW t \in Threads, AnswerStep(t) PROVE UNCHANGED knowledge
  BY <1>2, CallStepTypes DEF AInv, CallHolds, TypeOK, CallTypes, TableTypes, Stages
<1> QED
  BY <1>1, <1>2 DEF Next, vars

(***************************************************************************)
(* Beside the assistant too the knowledge base is the history of its       *)
(* documents: what answers read while ingestions overlap with them changes *)
(* as that history promises (knowledge.py, rag.py).                        *)
(***************************************************************************)
THEOREM KnowledgeServesHistory == Spec => ImplementsHistory
<1>1. Init => KnowledgeInit
  BY DEF Init
<1>2. Spec => KnowledgeSpec
  BY <1>1, KnowledgeSteps, Invariance, PTL DEF Spec, KnowledgeSpec
<1> QED
  BY <1>2, KnowledgeIsAHistory

(***************************************************************************)
(* Whatever is ingested, revoked or cached beside a call, its answer cites *)
(* only what its asker could read at some moment of the call.              *)
(***************************************************************************)
THEOREM CitationsAreReadable == Spec => []CitationsWereReadable
<1>1. AInv => CitationsWereReadable
  BY DEF AInv, CallHolds, Sound, CitationsWereReadable
<1> QED
  BY <1>1, Invariance, PTL

-----------------------------------------------------------------------------
(* The budget                                                              *)

\* The calls that may still add their cost to spent[p].
Generating(p) ==
    {t \in Threads :
        /\ asker[t] = p
        /\ IF stage[t] = "trace" THEN result[t].cost # 0
           ELSE stage[t] = "generate"}

LEMMA GeneratingFinite ==
    ASSUME NEW p
    PROVE  /\ IsFiniteSet(Generating(p)) /\ Cardinality(Generating(p)) \in Nat
           /\ IsFiniteSet(Generating(p)') /\ Cardinality(Generating(p)') \in Nat
           /\ Cardinality(Generating(p)) <= Cardinality(Threads)
           /\ Cardinality(Generating(p)') <= Cardinality(Threads)
           /\ Cardinality(Threads) \in Nat
<1>1. IsFiniteSet(Threads)
  BY AssistantConstants
<1>2. Generating(p) \in SUBSET Threads /\ Generating(p)' \in SUBSET Threads
  BY DEF Generating
<1> QED
  BY <1>1, <1>2, FS_Subset, FS_CardinalityType

LEMMA CostOfMore ==
    ASSUME NEW m \in Nat, NEW n \in Nat, m <= n
    PROVE  Cost * m <= Cost * n /\ Cost * m \in Nat /\ Cost * n \in Nat
BY CostTypes

LEMMA CostOfOne ==
    ASSUME NEW n \in Nat
    PROVE  Cost * (n + 1) = Cost * n + Cost
BY CostTypes

(***************************************************************************)
(* A step in which nobody starts to generate for p and nothing is charged. *)
(***************************************************************************)
LEMMA NoNewCost ==
    ASSUME AInv, SpendingIsBounded, NEW p \in Askers,
           Generating(p)' \subseteq Generating(p), spent'[p] \in Nat, spent'[p] <= spent[p]
    PROVE  spent'[p] + GeneratedCost(p)' <= TokenBudget - 1 + Cost * Cardinality(Threads)
<1>1. spent[p] \in Nat
  BY TypeParts DEF AInv, TableTypes
<1>2. Cardinality(Generating(p)') <= Cardinality(Generating(p))
  BY GeneratingFinite, FS_Subset
<1>3. /\ GeneratedCost(p) = Cost * Cardinality(Generating(p))
      /\ GeneratedCost(p)' = Cost * Cardinality(Generating(p)')
  BY DEF GeneratedCost, Generating
<1>4. GeneratedCost(p)' <= GeneratedCost(p) /\ GeneratedCost(p) \in Nat /\ GeneratedCost(p)' \in Nat
  BY <1>2, <1>3, GeneratingFinite, CostOfMore
<1>5. spent[p] + GeneratedCost(p) <= TokenBudget - 1 + Cost * Cardinality(Threads)
  BY DEF SpendingIsBounded
<1>6. Cost * Cardinality(Threads) \in Nat
  BY GeneratingFinite, CostOfMore
<1> DEFINE bound == TokenBudget - 1 + Cost * Cardinality(Threads)
<1>7. bound \in Int
  BY <1>6, CostTypes
<1> HIDE DEF bound
<1>8. spent[p] + GeneratedCost(p) <= bound
  BY <1>5 DEF bound
<1>9. spent'[p] + GeneratedCost(p)' <= bound
  BY <1>1, <1>4, <1>7, <1>8
<1> QED
  BY <1>9 DEF bound

(***************************************************************************)
(* A generation starts under the budget, and every thread can have one.    *)
(***************************************************************************)
LEMMA StartUnderBudget ==
    ASSUME AInv, NEW p \in Askers, spent[p] < TokenBudget, spent'[p] = spent[p]
    PROVE  spent'[p] + GeneratedCost(p)' <= TokenBudget - 1 + Cost * Cardinality(Threads)
<1>1. spent[p] \in Nat
  BY TypeParts DEF AInv, TableTypes
<1>2. GeneratedCost(p)' = Cost * Cardinality(Generating(p)')
  BY DEF GeneratedCost, Generating
<1> DEFINE a == Cost * Cardinality(Generating(p)')
           b == Cost * Cardinality(Threads)
<1>3. a <= b /\ a \in Nat /\ b \in Nat
  BY GeneratingFinite, CostOfMore
<1> HIDE DEF a, b
<1>4. spent'[p] + a <= TokenBudget - 1 + b
  BY <1>1, <1>3, CostTypes
<1> QED
  BY <1>2, <1>4 DEF a, b

(***************************************************************************)
(* A charge moves a cost from the generations under way to spent.          *)
(***************************************************************************)
LEMMA ChargeMoves ==
    ASSUME AInv, SpendingIsBounded, NEW p \in Askers, NEW t \in Threads,
           t \in Generating(p), Generating(p)' = Generating(p) \ {t},
           spent'[p] = spent[p] + Cost
    PROVE  spent'[p] + GeneratedCost(p)' <= TokenBudget - 1 + Cost * Cardinality(Threads)
<1>1. spent[p] \in Nat
  BY TypeParts DEF AInv, TableTypes
<1> DEFINE n == Cardinality(Generating(p)')
<1>2. n \in Nat /\ Cardinality(Generating(p)) = n + 1
  <2>1. Generating(p) = Generating(p)' \cup {t} /\ t \notin Generating(p)'
    OBVIOUS
  <2> QED
    BY <2>1, GeneratingFinite, FS_AddElement
<1>3. /\ GeneratedCost(p) = Cost * Cardinality(Generating(p))
      /\ GeneratedCost(p)' = Cost * n
  BY DEF GeneratedCost, Generating
<1>4. GeneratedCost(p) = GeneratedCost(p)' + Cost /\ GeneratedCost(p)' \in Nat
  BY <1>2, <1>3, CostOfOne, CostOfMore
<1>5. spent'[p] + GeneratedCost(p)' = spent[p] + GeneratedCost(p)
  BY <1>1, <1>4, CostTypes
<1> QED
  BY <1>5 DEF SpendingIsBounded

LEMMA OnlyOneMoves ==
    ASSUME NEW t \in Threads, OthersCall(t), NEW p \in Askers,
           t \in Generating(p)' => t \in Generating(p)
    PROVE  Generating(p)' \subseteq Generating(p)
BY DEF OthersCall, Generating

LEMMA SpendingStep ==
    ASSUME AInv, SpendingIsBounded, NEW t \in Threads, AnswerStep(t)
    PROVE  SpendingIsBounded'
<1> DEFINE bound == TokenBudget - 1 + Cost * Cardinality(Threads)
<1> SUFFICES ASSUME NEW p \in Askers PROVE spent'[p] + GeneratedCost(p)' <= bound
  BY DEF SpendingIsBounded
<1>0. /\ CallTypes /\ TableTypes /\ CallHolds(t) /\ OthersCall(t) /\ spent[p] \in Nat
  BY TypeParts, StepIsOneCall DEF AInv, TableTypes
<1> HIDE DEF bound
<1>a. ASSUME UNCHANGED spent, t \in Generating(p)' => t \in Generating(p)
      PROVE  spent'[p] + GeneratedCost(p)' <= bound
  BY <1>0, <1>a, OnlyOneMoves, NoNewCost DEF bound
<1> USE DEF CallTypes, Goto, tables
<1>1. CASE \/ \E q \in Askers, x \in Questions : Ask(t, q, x)
           \/ ReadCache(t) \/ SearchLexical(t)
  <2>1. stage'[t] \in {"cache", "authorize", "lexical", "semantic"} /\ UNCHANGED spent
    BY <1>0, <1>1 DEF Ask, ReadCache, SearchLexical
  <2> QED
    BY <1>a, <2>1 DEF Generating
<1>2. CASE AuthorizeCached(t) \/ SearchSemantic(t)
  <2>1. stage'[t] # "generate" /\ UNCHANGED spent
    BY <1>0, <1>2 DEF AuthorizeCached, SearchSemantic
  <2>2. stage'[t] = "trace" => result'[t].cost = 0
    BY <1>0, <1>2 DEF AuthorizeCached, SearchSemantic, CallHolds, Refused, Generated
  <2> QED
    BY <1>a, <2>1, <2>2 DEF Generating
<1>3. CASE CheckBudget(t)
  <2>1. UNCHANGED spent
    BY <1>3 DEF CheckBudget
  <2>2. CASE WithinBudget(asker[t]) /\ Goto(t, "generate") /\ UNCHANGED asker
    <3>1. CASE p = asker[t]
      BY <2>1, <2>2, <3>1, StartUnderBudget DEF WithinBudget, bound
    <3>2. CASE p # asker[t]
      BY <1>a, <2>1, <2>2, <3>2 DEF Generating
    <3> QED
      BY <3>1, <3>2
  <2>3. CASE End(t)
    <3>1. stage'[t] = "idle"
      BY <1>0, <2>3 DEF End
    <3> QED
      BY <1>a, <2>1, <3>1 DEF Generating
  <2> QED
    BY <1>3, <2>2, <2>3 DEF CheckBudget
<1>4. CASE Generate(t)
  <2>1. stage[t] = "generate" /\ UNCHANGED <<asker, spent>>
    BY <1>4 DEF Generate
  <2> QED
    BY <1>a, <2>1 DEF Generating
<1>5. CASE PersistTrace(t)
  <2>1. /\ stage[t] = "trace" /\ stage'[t] \in {"store", "idle"}
        /\ asker[t] \in Askers /\ result[t].cost \in {0, Cost}
        /\ spent' = [spent EXCEPT ![asker[t]] = @ + result[t].cost]
    BY <1>0, <1>5 DEF PersistTrace, End, CallHolds, InCall, Answers
  <2>2. t \notin Generating(p)'
    BY <2>1 DEF Generating
  <2>3. CASE p = asker[t] /\ result[t].cost # 0
    <3>1. t \in Generating(p)
      BY <2>1, <2>3 DEF Generating
    <3>2. Generating(p)' = Generating(p) \ {t}
      BY <1>0, <2>2 DEF OthersCall, Generating
    <3>3. spent'[p] = spent[p] + Cost
      BY <1>0, <2>1, <2>3 DEF TableTypes
    <3> QED
      BY <3>1, <3>2, <3>3, ChargeMoves DEF bound
  <2>4. CASE ~ (p = asker[t] /\ result[t].cost # 0)
    <3>1. spent'[p] = spent[p]
      BY <1>0, <2>1, <2>4 DEF TableTypes
    <3>2. Generating(p)' \subseteq Generating(p)
      BY <1>0, <2>2, OnlyOneMoves
    <3>3. spent'[p] \in Nat /\ spent'[p] <= spent[p]
      BY <1>0, <3>1
    <3> QED
      BY <3>2, <3>3, NoNewCost DEF bound
  <2> QED
    BY <2>3, <2>4
<1>6. CASE StoreCachedAnswer(t) \/ AnswerFails(t)
  <2>1. stage'[t] = "idle" /\ UNCHANGED spent
    BY <1>0, <1>6 DEF StoreCachedAnswer, AnswerFails, End
  <2> QED
    BY <1>a, <2>1 DEF Generating
<1> QED
  BY <1>1, <1>2, <1>3, <1>4, <1>5, <1>6 DEF AnswerStep

LEMMA SameCallsCost ==
    ASSUME AInv, SpendingIsBounded, UNCHANGED call,
           \A p \in Askers : spent'[p] \in Nat /\ spent'[p] <= spent[p]
    PROVE  SpendingIsBounded'
<1> SUFFICES ASSUME NEW p \in Askers
             PROVE  spent'[p] + GeneratedCost(p)' <= TokenBudget - 1 + Cost * Cardinality(Threads)
  BY DEF SpendingIsBounded
<1>1. Generating(p)' \subseteq Generating(p)
  BY DEF call, Generating
<1> QED
  BY <1>1, NoNewCost

LEMMA NextSpending == AInv /\ SpendingIsBounded /\ [Next]_vars => SpendingIsBounded'
<1> SUFFICES ASSUME AInv, SpendingIsBounded, [Next]_vars PROVE SpendingIsBounded'
  OBVIOUS
<1>0. \A p \in Askers : spent[p] \in Nat /\ spent[p] <= spent[p] /\ 0 <= spent[p]
  BY TypeParts DEF AInv, TableTypes
<1>1. CASE UNCHANGED <<call, tables>>
  BY <1>0, <1>1, SameCallsCost DEF tables
<1>2. CASE \E t \in Threads : AnswerStep(t)
  BY <1>2, SpendingStep
<1>3. CASE ClockStep
  <2>1. UNCHANGED call
    BY <1>3, ClockTypes DEF AInv
  <2>2. spent' = spent \/ spent' = [p \in Askers |-> 0]
    BY <1>3 DEF ClockStep, EntryExpires, MinutePasses, DayPasses
  <2>3. \A p \in Askers : spent'[p] \in Nat /\ spent'[p] <= spent[p]
    BY <1>0, <2>2
  <2> QED
    BY <2>1, <2>3, SameCallsCost
<1> QED
  BY <1>1, <1>2, <1>3 DEF Next, vars

LEMMA InitSpending == Init => SpendingIsBounded
<1> SUFFICES ASSUME Init, NEW p \in Askers
             PROVE  spent[p] + GeneratedCost(p) <= TokenBudget - 1 + Cost * Cardinality(Threads)
  BY DEF SpendingIsBounded
<1>1. Generating(p) = {} /\ spent[p] = 0
  BY DEF Init, Generating
<1>2. GeneratedCost(p) = Cost * Cardinality(Generating(p))
  BY DEF GeneratedCost, Generating
<1>3. GeneratedCost(p) = 0
  BY <1>1, <1>2, FS_EmptySet, CostTypes
<1> DEFINE b == Cost * Cardinality(Threads)
<1>4. b \in Nat
  BY GeneratingFinite, CostOfMore
<1> HIDE DEF b
<1>5. 0 <= TokenBudget - 1 + b
  BY <1>4, CostTypes
<1> QED
  BY <1>1, <1>3, <1>5 DEF b

(***************************************************************************)
(* With any number of threads, the excess over the daily budget is bounded *)
(* by one generation for each thread, counting those under way.            *)
(***************************************************************************)
THEOREM OverspendIsBounded == Spec => []SpendingIsBounded
BY InitSpending, NextSpending, Invariance, PTL DEF Spec
=============================================================================
