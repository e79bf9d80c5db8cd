------------------------------ MODULE Assistant ------------------------------
(***************************************************************************)
(* POST /v1/assistant/answers over the knowledge base: rate limit, cache,  *)
(* retrieval, budget, generation, citation check, trace and cache          *)
(* (rag.py), one call per thread of the pool.  Each statement that reads   *)
(* or commits is a step, with ingestions and revocations between them.     *)
(***************************************************************************)
EXTENDS KnowledgeBase

CONSTANTS
    Threads,
    Askers,             \* the principals that ask
    Questions,
    Lexical, Semantic,  \* Lexical[q], Semantic[q]: contents the searches find
    Nobody, NoQuestion,
    RateLimit,          \* AI_REQUEST_RATE_LIMIT_PER_MINUTE
    TokenBudget,        \* AI_DAILY_TOKEN_BUDGET
    Cost                \* tokens that one generation uses

ASSUME AssistantConstants ==
    /\ IsFiniteSet(Threads)
    /\ Askers \subseteq Readers
    /\ Lexical \in [Questions -> SUBSET Contents]
    /\ Semantic \in [Questions -> SUBSET Contents]
    /\ Nobody \notin Askers
    /\ NoQuestion \notin Questions
    /\ {RateLimit, TokenBudget, Cost} \subseteq Nat \ {0}

VARIABLES
    stage,      \* where each call is
    asker, question,
    evidence,   \* the documents its retrieval has found
    result,     \* the AnswerResult it holds, and the tokens it cost
    cache,      \* rag_cache, by principal and question
    asked,      \* traces of the last minute, by principal
    spent,      \* tokens in the traces of today, by principal
    readable    \* not in the code: what its asker could read at some
                \* moment since the call began

call == <<stage, asker, question, evidence, result>>
tables == <<cache, asked, spent>>
vars == <<knowledge, call, tables, readable>>

Answers ==
    [status : {"none", "answered", "degraded", "refused", "unavailable"},
     cites  : SUBSET Documents,
     cost   : {0, Cost},
     source : {"generated", "cached"}]

NoAnswer == [status |-> "none", cites |-> {}, cost |-> 0, source |-> "generated"]

TypeOK ==
    /\ KnowledgeTypeOK
    /\ stage \in [Threads -> {"idle", "cache", "authorize", "lexical", "semantic", "budget",
                              "generate", "trace", "store"}]
    /\ asker \in [Threads -> Askers \cup {Nobody}]
    /\ question \in [Threads -> Questions \cup {NoQuestion}]
    /\ evidence \in [Threads -> SUBSET Documents]
    /\ result \in [Threads -> Answers]
    /\ cache \in [Askers \X Questions -> Answers]
    /\ asked \in [Askers -> Nat]
    /\ spent \in [Askers -> Nat]
    /\ readable \in [Threads -> SUBSET Documents]

Init ==
    /\ KnowledgeInit
    /\ stage = [t \in Threads |-> "idle"]
    /\ asker = [t \in Threads |-> Nobody]
    /\ question = [t \in Threads |-> NoQuestion]
    /\ evidence = [t \in Threads |-> {}]
    /\ result = [t \in Threads |-> NoAnswer]
    /\ cache = [e \in Askers \X Questions |-> NoAnswer]
    /\ asked = [p \in Askers |-> 0]
    /\ spent = [p \in Askers |-> 0]
    /\ readable = [t \in Threads |-> {}]

Visible(p) == {d \in active : p \in readers[d]}

Goto(t, where) == stage' = [stage EXCEPT ![t] = where]

(***************************************************************************)
(* _enforce_request_rate counts the traces of the last minute.             *)
(***************************************************************************)
Ask(t, p, q) ==
    /\ stage[t] = "idle"
    /\ asked[p] < RateLimit
    /\ Goto(t, "cache")
    /\ asker' = [asker EXCEPT ![t] = p]
    /\ question' = [question EXCEPT ![t] = q]
    /\ UNCHANGED <<knowledge, evidence, result, tables>>

End(t) ==
    /\ Goto(t, "idle")
    /\ asker' = [asker EXCEPT ![t] = Nobody]
    /\ question' = [question EXCEPT ![t] = NoQuestion]
    /\ evidence' = [evidence EXCEPT ![t] = {}]
    /\ result' = [result EXCEPT ![t] = NoAnswer]

(***************************************************************************)
(* _cached_answer, SELECT response: an entry that has not expired.         *)
(***************************************************************************)
ReadCache(t) ==
    LET entry == cache[<<asker[t], question[t]>>]
    IN  /\ stage[t] = "cache"
        /\ \/ /\ entry.status # "none"
              /\ result' = [result EXCEPT ![t] = [entry EXCEPT !.source = "cached"]]
              /\ Goto(t, "authorize")
           \/ /\ entry.status = "none"
              /\ Goto(t, "lexical")
              /\ UNCHANGED result
        /\ UNCHANGED <<knowledge, asker, question, evidence, tables>>

\* Fault: the citations of a cached answer are not checked again.
FaultTrustCache(t) == TRUE

StillAuthorized(t) == result[t].cites \subseteq Visible(asker[t])

(***************************************************************************)
(* _cached_answer, SELECT count(..): the citations must all be active and  *)
(* readable still; otherwise it is a miss.                                 *)
(***************************************************************************)
AuthorizeCached(t) ==
    /\ stage[t] = "authorize"
    /\ \/ /\ StillAuthorized(t)
          /\ Goto(t, "trace")
          /\ UNCHANGED result
       \/ /\ ~ StillAuthorized(t)
          /\ result' = [result EXCEPT ![t] = NoAnswer]
          /\ Goto(t, "lexical")
    /\ UNCHANGED <<knowledge, asker, question, evidence, tables>>

Found(t, contents) == {d \in Visible(asker[t]) : d[2] \in contents[question[t]]}

(***************************************************************************)
(* The two queries of retrieve_chunks, each with its own snapshot.         *)
(***************************************************************************)
SearchLexical(t) ==
    /\ stage[t] = "lexical"
    /\ evidence' = [evidence EXCEPT ![t] = Found(t, Lexical)]
    /\ Goto(t, "semantic")
    /\ UNCHANGED <<knowledge, asker, question, result, tables>>

Generated(status, cites, cost) ==
    [status |-> status, cites |-> cites, cost |-> cost, source |-> "generated"]

\* Fault: a refusal with a status that is not in the constraint of rag_traces.
FaultRejected(cost) == Generated("rejected", {}, cost)

Refused(cost) == Generated("refused", {}, cost)

SearchSemantic(t) ==
    LET found == evidence[t] \cup Found(t, Semantic)
    IN  /\ stage[t] = "semantic"
        /\ evidence' = [evidence EXCEPT ![t] = found]
        /\ \/ /\ found = {}
              /\ result' = [result EXCEPT ![t] = Refused(0)]
              /\ Goto(t, "trace")
           \/ /\ found # {}
              /\ Goto(t, "budget")
              /\ UNCHANGED result
        /\ UNCHANGED <<knowledge, asker, question, tables>>

\* Fault: _enforce_daily_budget is not called.
FaultNoBudget(p) == TRUE

WithinBudget(p) == spent[p] < TokenBudget

(***************************************************************************)
(* _enforce_daily_budget; beyond it the call ends with 429 and no trace.   *)
(***************************************************************************)
CheckBudget(t) ==
    /\ stage[t] = "budget"
    /\ \/ /\ WithinBudget(asker[t])
          /\ Goto(t, "generate")
          /\ UNCHANGED <<asker, question, evidence, result>>
       \/ ~ WithinBudget(asker[t]) /\ End(t)
    /\ UNCHANGED <<knowledge, tables>>

CitationsValid(cited, found) == cited # {} /\ cited \subseteq found

Citations(t) == {c \in SUBSET Documents : CitationsValid(c, evidence[t])}

Drafts(t) ==
    {Refused(0), Refused(Cost), Generated("unavailable", {}, 0)}
    \cup {Generated("answered", c, Cost) : c \in Citations(t)}
    \cup {Generated("degraded", {d}, 0) : d \in evidence[t]}

(***************************************************************************)
(* A draft may cite anything, or say it is not supported: it is an answer  *)
(* only when every citation is in the evidence.  A provider that refuses   *)
(* leaves no cost; one that is away leaves the extract of one document, or *)
(* the error.                                                              *)
(***************************************************************************)
Generate(t) ==
    /\ stage[t] = "generate"
    /\ \E draft \in Drafts(t) : result' = [result EXCEPT ![t] = draft]
    /\ Goto(t, "trace")
    /\ UNCHANGED <<knowledge, asker, question, evidence, tables>>

(***************************************************************************)
(* _persist_trace comes before any answer; only a generated one that was   *)
(* not an error goes on to the cache.                                      *)
(***************************************************************************)
PersistTrace(t) ==
    /\ stage[t] = "trace"
    /\ asked' = [asked EXCEPT ![asker[t]] = @ + 1]
    /\ spent' = [spent EXCEPT ![asker[t]] = @ + result[t].cost]
    /\ \/ /\ result[t].source = "generated"
          /\ result[t].status # "unavailable"
          /\ Goto(t, "store")
          /\ UNCHANGED <<asker, question, evidence, result>>
       \/ /\ result[t].source = "cached" \/ result[t].status = "unavailable"
          /\ End(t)
    /\ UNCHANGED <<knowledge, cache>>

StoreCachedAnswer(t) ==
    /\ stage[t] = "store"
    /\ cache' = [cache EXCEPT ![<<asker[t], question[t]>>] = [result[t] EXCEPT !.cost = 0]]
    /\ End(t)
    /\ UNCHANGED <<knowledge, asked, spent>>

(***************************************************************************)
(* An embedding, a statement or a connection fails: 422 or 503.            *)
(***************************************************************************)
AnswerFails(t) ==
    /\ stage[t] # "idle"
    /\ End(t)
    /\ UNCHANGED <<knowledge, tables>>

EntryExpires(e) ==
    /\ cache[e].status # "none"
    /\ cache' = [cache EXCEPT ![e] = NoAnswer]
    /\ UNCHANGED <<knowledge, call, asked, spent>>

MinutePasses(p) ==
    /\ asked[p] > 0
    /\ asked' = [asked EXCEPT ![p] = @ - 1]
    /\ UNCHANGED <<knowledge, call, cache, spent>>

DayPasses ==
    /\ spent' = [p \in Askers |-> 0]
    /\ spent # spent'
    /\ UNCHANGED <<knowledge, call, cache, asked>>

-----------------------------------------------------------------------------

AnswerStep(t) ==
    \/ \E p \in Askers, q \in Questions : Ask(t, p, q)
    \/ ReadCache(t)
    \/ AuthorizeCached(t)
    \/ SearchLexical(t)
    \/ SearchSemantic(t)
    \/ CheckBudget(t)
    \/ Generate(t)
    \/ PersistTrace(t)
    \/ StoreCachedAnswer(t)
    \/ AnswerFails(t)

ClockStep ==
    \/ \E e \in Askers \X Questions : EntryExpires(e)
    \/ \E p \in Askers : MinutePasses(p)
    \/ DayPasses

Watch ==
    readable' = [t \in Threads |->
        IF stage'[t] = "idle" THEN {}
        ELSE readable[t] \cup {d \in active' : asker'[t] \in readers'[d]}]

Next ==
    /\ \/ KnowledgeNext /\ UNCHANGED <<call, tables>>
       \/ \E t \in Threads : AnswerStep(t)
       \/ ClockStep
    /\ Watch

Spec == Init /\ [][Next]_vars

-----------------------------------------------------------------------------
(* Properties                                                              *)

(***************************************************************************)
(* No answer, generated or cached, cites what its asker could not read at  *)
(* some moment of the call, whatever was revoked or edited before it; an   *)
(* answer has a citation and a refusal has none.                           *)
(***************************************************************************)
CitationsWereReadable ==
    \A t \in Threads : stage[t] \in {"trace", "store"} =>
        /\ result[t].cites \subseteq readable[t]
        /\ result[t].status \in {"answered", "degraded"} <=> result[t].cites # {}

(***************************************************************************)
(* What the generations under way for p will add to spent[p], at most.     *)
(***************************************************************************)
GeneratedCost(p) ==
    Cost * Cardinality({t \in Threads :
        /\ asker[t] = p
        /\ IF stage[t] = "trace" THEN result[t].cost # 0
           ELSE stage[t] = "generate"})

(***************************************************************************)
(* The budget is read before a generation and charged after it, so calls   *)
(* of one subject overtake one another; each thread can exceed the budget  *)
(* by one generation at most.                                              *)
(***************************************************************************)
SpendingIsBounded ==
    \A p \in Askers :
        spent[p] + GeneratedCost(p) <= TokenBudget - 1 + Cost * Cardinality(Threads)
=============================================================================
