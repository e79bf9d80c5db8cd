--------------------------- MODULE KnowledgeBase ---------------------------
(***************************************************************************)
(* The versioned documents of knowledge.py: ingestion by concurrent calls, *)
(* and which principal may read what.                                      *)
(*                                                                         *)
(* A document is a source (its owner and source_uri) with one content; its *)
(* chunks are written with it and never change, so a document stands for   *)
(* them too.  An ingestion is one transaction of several statements, each  *)
(* of which sees what was committed before it.                             *)
(***************************************************************************)
EXTENDS Integers, FiniteSets, FiniteSetsExt

CONSTANTS
    Ingesters,    \* concurrent calls of ingest_document
    Sources,      \* (created_by_hash, source_uri) pairs
    Contents,     \* told apart by their SHA-256
    Readers,      \* principals
    Owner,        \* Owner[s], the principal that writes source s
    NoDocument

Documents == Sources \X Contents

ASSUME KnowledgeConstants ==
    /\ Owner \in [Sources -> Readers]
    /\ IsFiniteSet(Contents)
    /\ NoDocument \notin Documents

VARIABLES
    version,   \* knowledge_documents.version, 0 when there is no such row
    active,    \* the documents with the active flag
    readers,   \* knowledge_document_permissions, by document
    step,      \* where each ingestion is
    doc,       \* the document it is to store
    granted,   \* the principals it is to let read it
    latest     \* the max(version) it read

store == <<version, active, readers>>
ingestion == <<step, doc, granted, latest>>
knowledge == <<version, active, readers, step, doc, granted, latest>>

KnowledgeTypeOK ==
    /\ version \in [Documents -> Nat]
    /\ active \subseteq Documents
    /\ readers \in [Documents -> SUBSET Readers]
    /\ step \in [Ingesters -> {"idle", "lookup", "lock", "write"}]
    /\ doc \in [Ingesters -> Documents \cup {NoDocument}]
    /\ granted \in [Ingesters -> SUBSET Readers]
    /\ latest \in [Ingesters -> Nat]

KnowledgeInit ==
    /\ version = [d \in Documents |-> 0]
    /\ active = {}
    /\ readers = [d \in Documents |-> {}]
    /\ step = [i \in Ingesters |-> "idle"]
    /\ doc = [i \in Ingesters |-> NoDocument]
    /\ granted = [i \in Ingesters |-> {}]
    /\ latest = [i \in Ingesters |-> 0]

-----------------------------------------------------------------------------

Stored(s) == {d \in Documents : d[1] = s /\ version[d] # 0}

(***************************************************************************)
(* The content is chunked and embedded; a failure there changes nothing.   *)
(* The owner can always read its own document.                             *)
(***************************************************************************)
BeginIngestion(i, d, others) ==
    /\ step[i] = "idle"
    /\ step' = [step EXCEPT ![i] = "lookup"]
    /\ doc' = [doc EXCEPT ![i] = d]
    /\ granted' = [granted EXCEPT ![i] = others \cup {Owner[d[1]]}]
    /\ UNCHANGED <<store, latest>>

EndIngestion(i) ==
    /\ step' = [step EXCEPT ![i] = "idle"]
    /\ doc' = [doc EXCEPT ![i] = NoDocument]
    /\ granted' = [granted EXCEPT ![i] = {}]
    /\ latest' = [latest EXCEPT ![i] = 0]

(***************************************************************************)
(* This content is known already, in this version or an earlier one: the   *)
(* permissions are added to those it has (ON CONFLICT DO NOTHING).         *)
(***************************************************************************)
Reuse(i) ==
    /\ version[doc[i]] # 0
    /\ readers' = [readers EXCEPT ![doc[i]] = @ \cup granted[i]]
    /\ EndIngestion(i)
    /\ UNCHANGED <<version, active>>

(***************************************************************************)
(* SELECT .. WHERE content_sha256 = %s, before the lock is taken.          *)
(***************************************************************************)
LookUp(i) ==
    /\ step[i] = "lookup"
    /\ \/ Reuse(i)
       \/ /\ version[doc[i]] = 0
          /\ step' = [step EXCEPT ![i] = "lock"]
          /\ UNCHANGED <<store, doc, granted, latest>>

\* Fault: no pg_advisory_xact_lock.
FaultNoSourceLock(s) == FALSE

SourceLocked(s) == \E i \in Ingesters : step[i] = "write" /\ doc[i][1] = s

(***************************************************************************)
(* pg_advisory_xact_lock, held to the end of the transaction, and SELECT   *)
(* max(version).                                                           *)
(***************************************************************************)
LockSource(i) ==
    /\ step[i] = "lock"
    /\ ~ SourceLocked(doc[i][1])
    /\ latest' = [latest EXCEPT ![i] =
                     Max({version[d] : d \in Stored(doc[i][1])} \cup {0})]
    /\ step' = [step EXCEPT ![i] = "write"]
    /\ UNCHANGED <<store, doc, granted>>

\* Fault: the permissions are left to a transaction of their own, which fails.
FaultWriteWithoutReaders(i) ==
    /\ step[i] = "write"
    /\ version[doc[i]] = 0
    /\ version' = [version EXCEPT ![doc[i]] = latest[i] + 1]
    /\ active' = {d \in active : d[1] # doc[i][1]} \cup {doc[i]}
    /\ UNCHANGED readers
    /\ EndIngestion(i)

(***************************************************************************)
(* The version before is deactivated and the new one written with its      *)
(* chunks and permissions, and committed.  A concurrent call that stored   *)
(* this content first makes it a unique violation.                         *)
(***************************************************************************)
WriteVersion(i) ==
    /\ step[i] = "write"
    /\ \/ /\ version[doc[i]] = 0
          /\ version' = [version EXCEPT ![doc[i]] = latest[i] + 1]
          /\ active' = {d \in active : d[1] # doc[i][1]} \cup {doc[i]}
          /\ readers' = [readers EXCEPT ![doc[i]] = granted[i]]
       \/ /\ version[doc[i]] # 0
          /\ UNCHANGED store
    /\ EndIngestion(i)

(***************************************************************************)
(* Any psycopg.Error: rolled back, 503.                                    *)
(***************************************************************************)
IngestionFails(i) ==
    /\ step[i] # "idle"
    /\ EndIngestion(i)
    /\ UNCHANGED store

(***************************************************************************)
(* An administrator revokes a permission in the database, which no code of *)
(* the service does (tests/test_rag_integration.py does it).               *)
(***************************************************************************)
Revoke(d, p) ==
    /\ p \in readers[d]
    /\ readers' = [readers EXCEPT ![d] = @ \ {p}]
    /\ UNCHANGED <<version, active, ingestion>>

KnowledgeNext ==
    \/ \E i \in Ingesters :
          \/ \E d \in Documents :
                \E others \in SUBSET (Readers \ {Owner[d[1]]}) : BeginIngestion(i, d, others)
          \/ LookUp(i)
          \/ LockSource(i)
          \/ WriteVersion(i)
          \/ IngestionFails(i)
    \/ \E d \in Documents, p \in Readers : Revoke(d, p)

KnowledgeSpec == KnowledgeInit /\ [][KnowledgeNext]_knowledge

-----------------------------------------------------------------------------
(* Properties                                                              *)

(***************************************************************************)
(* Concurrent edits of one source are serialised: its versions are 1 to n  *)
(* without a gap or a repetition, and the active one is the newest.        *)
(***************************************************************************)
VersionsInOrder ==
    \A s \in Sources :
        /\ {version[d] : d \in Stored(s)} = 1 .. Cardinality(Stored(s))
        /\ {d \in active : d[1] = s} =
              {d \in Stored(s) : \A e \in Stored(s) : version[e] <= version[d]}

(***************************************************************************)
(* Whatever calls overlap, and wherever one fails, the editions, what      *)
(* searches are shown and who may read it change as DocumentHistory        *)
(* promises.  It does not promise that ingesting a known content replaces  *)
(* its permissions, as docs/knowledge-retrieval-contract.md says: Reuse    *)
(* adds to them.                                                           *)
(***************************************************************************)
History == INSTANCE DocumentHistory
    WITH edition <- version, shown <- active, permitted <- readers

ImplementsHistory == History!Spec

(***************************************************************************)
(* docs/knowledge-retrieval-contract.md: "Una edicion crea una version     *)
(* nueva y desactiva la anterior".  An ingestion that succeeds because the *)
(* content is known leaves its readers with that content.                  *)
(***************************************************************************)
EditIsShown ==
    [][\A i \in Ingesters : LookUp(i) /\ step'[i] = "idle" => doc[i] \in active']_knowledge
=============================================================================
