------------------------------ MODULE Retrieval ------------------------------
(***************************************************************************)
(* Runbook search (memory/retrieval.go, knowledge.go, embeddings.go): the  *)
(* vector index, a cache whose key is the provenance of its vectors, and   *)
(* the keyword scorer a search falls back to.                              *)
(*                                                                         *)
(* Workers are calls of any process over one state directory, each with    *)
(* its configuration. Meanwhile the corpus is edited and the endpoint      *)
(* pulls new builds of a model. A call of the endpoint, a statement that   *)
(* takes or gives back the write lock, and a read of the corpus are steps. *)
(* Whoever reads the corpus finds any of its versions: it may be edited    *)
(* between any two reads, and nothing else depends on it.                  *)
(* A vector is the artifact that made it: only vectors of one artifact can *)
(* be compared. Builds are only replaced by later ones; digests do not     *)
(* collide; the corpus hash is the corpus up to line endings.              *)
(*                                                                         *)
(* A definition Name_Fault is Name as a plausible slip would have left it;  *)
(* nothing uses it but a check that some property notices the slip.        *)
(***************************************************************************)
EXTENDS Integers, Sequences, FiniteSets, SequencesExt

CONSTANTS
  Workers,
  Calls,       \* [op, config] pairs; a config is a [model, chunker, semantic] record
  Corpora,     \* the runbook libraries: [Slugs -> Contents \cup {NoText}]
  ChunksOf,    \* content -> its passages
  Distances,   \* passage -> distance from the query
  Occurs,      \* content -> term -> occurrences
  InSlug,      \* slug -> the terms its name contains
  Query,       \* the terms of the query, in order
  Limits,      \* what a model may ask for; 0 is an omitted limit
  Dimensions,  \* artifact -> length of its vectors
  Foreign      \* generations that an older binary may have left

VARIABLES
  artifact,  \* model -> the build the endpoint serves
  index,     \* the committed generation
  lock,      \* the holder of the write lock
  search     \* worker -> the call it runs

runbookVars == <<artifact, index, lock, search>>

NoText == "no text"
Nobody == "nobody"
Unresolved == 0    \* the digest when /api/tags does not tell
Format == 2
ReadAttempts == 2
OverFetch == 3
MaxResults == 3
SlugBoost == 5

SearchConfigs == {c.config : c \in Calls}
Models == {c.model : c \in SearchConfigs}
Artifacts == DOMAIN Dimensions
Slugs == DOMAIN InSlug
NoIndex == [format |-> 0, rows |-> {}]

\* A vector has a length, whatever artifact made it; the format is bumped with what a
\* generation holds, so an older binary left one of another format.
RunbooksAssumption ==
  /\ Calls # {} /\ Corpora # {}
  /\ \A call \in Calls : call.op \in {"search", "index"}
  /\ Artifacts \subseteq Nat \ {0} /\ 1 \in Artifacts
  /\ \A made \in Artifacts : Dimensions[made] \in Nat \ {0}
  /\ Nobody \notin Workers
  /\ \A left \in Foreign : left.format # Format

\* ChunkRunbook, over the corpus.
Passages(files) ==
  UNION {{[slug |-> s, text |-> t] : t \in ChunksOf[files[s]]} :
           s \in {s \in Slugs : files[s] # NoText}}

NoSpec == [corpus |-> CHOOSE c \in Corpora : TRUE, digest |-> Unresolved]

Idle == [pc |-> "idle", op |-> "search", config |-> CHOOSE c \in SearchConfigs : TRUE, limit |-> 0,
         before |-> Unresolved, vector |-> 0, batch |-> 0, spec |-> NoSpec, tries |-> 0,
         rows |-> {}, mode |-> "none", slugs |-> <<>>]

RetrievalInit ==
  /\ artifact = [m \in Models |-> 1]
  /\ index \in {NoIndex} \cup Foreign
  /\ lock = Nobody
  /\ search = [p \in Workers |-> Idle]

-----------------------------------------------------------------------------
(* The keyword scorer *)

MinOf(a, b) == IF a < b THEN a ELSE b

\* rankRunbooks: an omitted or non-positive limit is the default, which also caps.
Clamp(limit) == IF limit <= 0 THEN MaxResults ELSE MinOf(limit, MaxResults)

Scale == 6  \* divisible by every number of runbooks of the instance

\* keywordSearch: occurrences weighted by rarity, and a boost for a term in the
\* slug; best first, then by slug.
Score(files, s) ==
  LET docs == {d \in Slugs : files[d] # NoText}
      total == IF docs = {} THEN 1 ELSE Cardinality(docs)
      having(t) == Cardinality({d \in docs : Occurs[files[d]][t] > 0})
      term(t) == (IF having(t) = 0 THEN 0
                  ELSE Occurs[files[s]][t] * ((Scale * total) \div having(t)))
                 + (IF t \in InSlug[s] THEN Scale * total * SlugBoost ELSE 0)
  IN FoldSeq(LAMBDA t, sum : sum + term(t), 0, Query)

Better(files, a, b) ==
  \/ Score(files, a) > Score(files, b)
  \/ Score(files, a) = Score(files, b) /\ a < b

KeywordSearch(files, limit) ==
  LET hits == {s \in Slugs : files[s] # NoText /\ Score(files, s) > 0}
      ranked == SetToSortSeq(hits, LAMBDA a, b : Better(files, a, b))
  IN SubSeq(ranked, 1, MinOf(limit, Len(ranked)))

-----------------------------------------------------------------------------
(* The index *)

\* readyForSpec: every input of the provenance, and the dimensions a query needs.
ReadyForSpec_AnyArtifact(gen, config, spec, dimensions) ==
  /\ gen # NoIndex
  /\ gen.format = Format /\ gen.corpus = spec.corpus
  /\ gen.model = config.model /\ gen.chunker = config.chunker
  /\ gen.count = Cardinality(Passages(spec.corpus))
  /\ dimensions \in {0, gen.dimensions}

ReadyForSpec(gen, config, spec, dimensions) ==
  /\ gen # NoIndex
  /\ gen.format = Format
  /\ gen.corpus = spec.corpus
  /\ gen.model = config.model
  /\ gen.digest = spec.digest
  /\ gen.chunker = config.chunker
  /\ gen.count = Cardinality(Passages(spec.corpus))
  /\ dimensions \in {0, gen.dimensions}

\* writeGeneration: tables and provenance, in one transaction.
Generation(config, spec, made) ==
  [format |-> Format, corpus |-> spec.corpus, model |-> config.model, digest |-> spec.digest,
   chunker |-> config.chunker, count |-> Cardinality(Passages(spec.corpus)),
   dimensions |-> Dimensions[made],
   rows |-> {[passage |-> c, artifact |-> made] : c \in Passages(spec.corpus)}]

-----------------------------------------------------------------------------
(* Control *)

SearchAt(p, pc) == search[p].pc = pc
SearchGoto(p, pc) == search' = [search EXCEPT ![p].pc = pc]
Released(p) == lock' = IF lock = p THEN Nobody ELSE lock

\* EmbeddingUnavailableError: a search answers by keywords, whose scorer reads
\* the corpus again; an operator's build reports it.
Unavailable(p) ==
  /\ search' = [search EXCEPT ![p] = IF search[p].op = "search"
                                     THEN [Idle EXCEPT !.pc = "keyword", !.limit = search[p].limit]
                                     ELSE Idle]
  /\ Released(p)

\* ModelDigest: what the endpoint lists now, or nothing.
Digests(p) == {artifact[search[p].config.model], Unresolved}

\* The dimensions of the query vector; a build without a query asks for none.
Wanted(p) == IF search[p].op = "search" THEN Dimensions[search[p].vector] ELSE 0

-----------------------------------------------------------------------------
(* SemanticSearch and IndexRunbooks *)

AskRunbooks(p) ==
  /\ SearchAt(p, "idle")
  /\ \E call \in Calls, limit \in Limits :
       search' = [search EXCEPT ![p] = [Idle EXCEPT
         !.op = call.op, !.config = call.config, !.limit = Clamp(limit),
         !.pc = IF call.op = "index" THEN "digest"
                ELSE IF call.config.semantic THEN "sample" ELSE "keyword"]]
  /\ UNCHANGED <<artifact, index, lock>>

\* embedVerified, of the query: a digest before, the vector, a digest after.
Sample(p) ==
  /\ SearchAt(p, "sample")
  /\ \E d \in Digests(p) : search' = [search EXCEPT ![p].before = d, ![p].pc = "embed"]
  /\ UNCHANGED <<artifact, index, lock>>

Embed(p) ==
  /\ SearchAt(p, "embed")
  /\ search' = [search EXCEPT ![p].vector = artifact[search[p].config.model], ![p].pc = "verify"]
  /\ UNCHANGED <<artifact, index, lock>>

VerifyQuery(p) ==
  /\ SearchAt(p, "verify")
  /\ \E d \in Digests(p) :
       IF d # search[p].before
       THEN Unavailable(p)
       ELSE search' = [search EXCEPT ![p].spec.digest = d, ![p].before = Unresolved,
                                 ![p].pc = "spec"] /\ UNCHANGED lock
  /\ UNCHANGED <<artifact, index>>

\* The digest of a build without a query.
ResolveDigest(p) ==
  /\ SearchAt(p, "digest")
  /\ \E d \in Digests(p) : search' = [search EXCEPT ![p].spec.digest = d, ![p].pc = "spec"]
  /\ UNCHANGED <<artifact, index, lock>>

\* spec: the corpus as it is now. An empty one is an error nobody falls back from.
ReadSpec(p) ==
  /\ SearchAt(p, "spec")
  /\ \E files \in Corpora :
       search' = [search EXCEPT
         ![p] = IF Passages(files) = {} THEN Idle
                ELSE [search[p] EXCEPT !.spec.corpus = files, !.pc = "begin"]]
  /\ UNCHANGED <<artifact, index, lock>>

\* buildIndex: BEGIN IMMEDIATE, so that of several builders one embeds.
BeginBuild(p) ==
  /\ SearchAt(p, "begin")
  /\ lock = Nobody
  /\ lock' = p
  /\ SearchGoto(p, "check")
  /\ UNCHANGED <<artifact, index>>

\* After the build a search reads; an operator's build is done.
Built(p) ==
  /\ IF search[p].op = "search"
     THEN search' = [search EXCEPT ![p].pc = "read", ![p].before = Unresolved, ![p].batch = 0]
     ELSE search' = [search EXCEPT ![p] = Idle]
  /\ lock' = Nobody

CheckIndex(p) ==
  /\ SearchAt(p, "check")
  /\ IF ReadyForSpec(index, search[p].config, search[p].spec, Wanted(p))
     THEN Built(p)
     ELSE SearchGoto(p, "corpusSample") /\ UNCHANGED lock
  /\ UNCHANGED <<artifact, index>>

\* embedVerified, of the corpus, bound to the digest of the query.
CorpusSample(p) ==
  /\ SearchAt(p, "corpusSample")
  /\ \E d \in Digests(p) :
       IF d # search[p].spec.digest
       THEN Unavailable(p)
       ELSE search' = [search EXCEPT ![p].before = d, ![p].pc = "corpusEmbed"] /\ UNCHANGED lock
  /\ UNCHANGED <<artifact, index>>

CorpusEmbed(p) ==
  /\ SearchAt(p, "corpusEmbed")
  /\ search' = [search EXCEPT ![p].batch = artifact[search[p].config.model], ![p].pc = "write"]
  /\ UNCHANGED <<artifact, index, lock>>

\* The second digest, the dimensions, and the generation, committed as a whole.
Write(p) ==
  /\ SearchAt(p, "write")
  /\ \E d \in Digests(p) :
       IF d = search[p].before /\ Wanted(p) \in {0, Dimensions[search[p].batch]}
       THEN /\ index' = Generation(search[p].config, search[p].spec, search[p].batch)
            /\ Built(p)
       ELSE Unavailable(p) /\ UNCHANGED index
  /\ UNCHANGED artifact

\* readRanked: the provenance again, in the transaction that scans. Not ready is
\* built anew and read again, at most ReadAttempts times.
ReadRanked(p) ==
  /\ SearchAt(p, "read")
  /\ search' = [search EXCEPT
       ![p].tries = search[p].tries + 1,
       ![p].rows = IF ReadyForSpec(index, search[p].config, search[p].spec, Wanted(p))
                   THEN index.rows ELSE {},
       ![p].pc = IF search[p].tries = ReadAttempts THEN "keyword"
                 ELSE IF ReadyForSpec(index, search[p].config, search[p].spec, Wanted(p))
                      THEN "match" ELSE "begin"]
  /\ UNCHANGED <<artifact, index, lock>>

Nearer(a, b) ==
  \/ Distances[a.passage.text] < Distances[b.passage.text]
  \/ /\ Distances[a.passage.text] = Distances[b.passage.text]
     /\ a.passage.slug < b.passage.slug

\* matches: the best passage of each runbook among the nearest ones, best first;
\* the text is read again, and may have gone.
BestMatches(rows, limit) ==
  LET near == SetToSortSeq(rows, Nearer)
      top == SubSeq(near, 1, MinOf(limit * OverFetch, Len(near)))
      slugs == [i \in DOMAIN top |-> top[i].passage.slug]
      best == SelectSeq([i \in DOMAIN slugs |-> IF slugs[i] \in {slugs[j] : j \in 1..(i - 1)}
                                                THEN 0 ELSE slugs[i]], LAMBDA s : s # 0)
  IN SubSeq(best, 1, MinOf(limit, Len(best)))

Match(p) ==
  /\ SearchAt(p, "match")
  /\ search' = [search EXCEPT ![p] = [Idle EXCEPT !.pc = "answer", !.mode = "semantic",
                                        !.slugs = BestMatches(search[p].rows, search[p].limit)]]
  /\ UNCHANGED <<artifact, index, lock>>

Keyword(p) ==
  /\ SearchAt(p, "keyword")
  /\ \E files \in Corpora :
       search' = [search EXCEPT ![p] = [Idle EXCEPT !.pc = "answer", !.mode = "keyword",
                                          !.slugs = KeywordSearch(files, search[p].limit)]]
  /\ UNCHANGED <<artifact, index, lock>>

Answer(p) ==
  /\ SearchAt(p, "answer")
  /\ search' = [search EXCEPT ![p] = Idle]
  /\ UNCHANGED <<artifact, index, lock>>

\* The endpoint fails or answers out of shape, or the vector store fails: both are
\* unavailability.
FailSearch(p) ==
  /\ search[p].pc \in {"embed", "begin", "check", "corpusEmbed", "write", "read"}
  /\ Unavailable(p)
  /\ UNCHANGED <<artifact, index>>

\* The process dies, the call is cancelled, or the corpus cannot be read.
SearchDies(p) ==
  /\ ~SearchAt(p, "idle")
  /\ search' = [search EXCEPT ![p] = Idle]
  /\ Released(p)
  /\ UNCHANGED <<artifact, index>>

-----------------------------------------------------------------------------
(* The world *)

Pull(m) ==
  /\ artifact[m] + 1 \in Artifacts
  /\ artifact' = [artifact EXCEPT ![m] = @ + 1]
  /\ UNCHANGED <<index, lock, search>>

RetrievalNext ==
  \/ \E p \in Workers :
       \/ AskRunbooks(p) \/ Sample(p) \/ Embed(p) \/ VerifyQuery(p)
       \/ ResolveDigest(p) \/ ReadSpec(p)
       \/ BeginBuild(p) \/ CheckIndex(p) \/ CorpusSample(p) \/ CorpusEmbed(p) \/ Write(p)
       \/ ReadRanked(p) \/ Match(p) \/ Keyword(p) \/ Answer(p) \/ FailSearch(p) \/ SearchDies(p)
  \/ \E m \in Models : Pull(m)

RetrievalSpec == RetrievalInit /\ [][RetrievalNext]_runbookVars

-----------------------------------------------------------------------------
(* What must hold *)

\* The vectors a search ranks are a whole generation, of the corpus it read, and of
\* the artifact that made its query vector, whatever is pulled, edited, built by
\* others or cut short meanwhile. An endpoint that tells no digest gives only the
\* dimensions to go by.
OneVectorSpace ==
  \A p \in Workers :
    LET s == search[p]
    IN SearchAt(p, "match") =>
         /\ {r.passage : r \in s.rows} = Passages(s.spec.corpus)
         /\ \A r \in s.rows :
              /\ Dimensions[r.artifact] = Dimensions[s.vector]
              /\ s.spec.digest # Unresolved => r.artifact = s.vector

\* Builders that race for one generation build it once: nobody replaces one that is
\* what it was asked for.
BuiltOnce ==
  \A p \in Workers :
    SearchAt(p, "write") /\ index' # index /\ search'[p] # search[p] =>
      ~ReadyForSpec(index, search[p].config, search[p].spec, Wanted(p))

\* Every search that ranks compares like with like, and no build repeats another.
RunbooksAreIndexed == [][OneVectorSpace' /\ BuiltOnce]_runbookVars
=============================================================================
