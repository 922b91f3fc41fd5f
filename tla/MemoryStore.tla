------------------------------ MODULE MemoryStore ------------------------------
(***************************************************************************)
(* The memory of past missions: the rows of rag_documents                  *)
(* (db/models.py, db/repositories.py), the recorders                       *)
(* (memory/episodic.py, memory/fault_memory.py), the ingestion and the     *)
(* searches (memory/rag.py, memory/retriever.py) and the agent's tools on  *)
(* them (agent/tools/definitions.py).                                      *)
(*                                                                         *)
(* Every call opens a session of its own.  A writer's shows only at its    *)
(* commit, one step; a search reads the rows, gives way at the commit      *)
(* behind it, and returns what it makes of the rows that it read.          *)
(* A text is the sequence of its words, and ILIKE finds a pattern that     *)
(* occurs in it in one piece.  Embeddings, which nothing searches, are     *)
(* left out.                                                               *)
(***************************************************************************)
EXTENDS Integers, Sequences, FiniteSets, SequencesExt

CONSTANTS
  Callers,   \* bound on the searches in progress
  Sources,   \* the unique keys of the rows, mission:<id> and fault:<id>:<component> included
  Words,     \* the words of goals, faults and queries
  Notes,     \* the texts of outcomes and notes of an episode
  Actions,   \* the texts of recovery actions and outcomes of a fault
  Trusts,    \* the trusts that callers give
  MinTrust,  \* the least trust that StateAwareRetriever and lookup_similar take
  TopKs      \* the numbers of results that callers ask for

VARIABLES
  rows,      \* rag_documents: per source [source, type, trust, text], or NoRow
  call,      \* per search whose rows are read: [kind, k, docs, matching], or Idle
  recorded   \* history, per source: the row that a recorder reported as
             \* persisted and nothing ingested since

vars == <<rows, call, recorded>>

Types == {"procedural", "semantic", "episodic", "fault", "environmental"}
Rank == [agent_generated |-> 1, simulation_episode |-> 2, validated_mission |-> 3,
         human_reviewed |-> 4, verified_procedure |-> 5]

ASSUME MemoryAssumption ==
  /\ IsFiniteSet(Sources)
  /\ Trusts \subseteq DOMAIN Rank
  /\ MinTrust \in DOMAIN Rank
  /\ TopKs \subseteq Nat \ {0}

NoRow == [source |-> "none", type |-> "none", trust |-> "none", text |-> <<>>]
Idle == [kind |-> "none", k |-> 0, docs |-> <<>>, matching |-> {}]

Init ==
  /\ rows = [s \in Sources |-> NoRow]
  /\ call = [c \in Callers |-> Idle]
  /\ recorded = [s \in Sources |-> NoRow]

\* Metadata that is missing or not of the enumeration reads as these.
RankOf(row) == IF row.trust \in DOMAIN Rank THEN Rank[row.trust] ELSE Rank.simulation_episode
TypeOf(row) == IF row.type \in Types THEN row.type ELSE "semantic"

-----------------------------------------------------------------------------
(***************************************************************************)
(* Writers                                                                 *)
(***************************************************************************)
\* record_episode: the goal, the outcome and the notes, in this order.
Episode(source, goal, notes, trust) ==
  [source |-> source, type |-> "episodic", trust |-> trust,
   text |-> <<"mission">> \o goal \o notes]

\* record_fault: each name of the fault stands behind its label.
FaultEpisode(source, fault, action, trust) ==
  [source |-> source, type |-> "fault", trust |-> trust,
   text |-> <<"subsystem=", fault.subsystem, "component=", fault.component,
              "type=", fault.type>> \o action]

Texts == {<<>>} \cup {<<w>> : w \in Words}
Faults == [subsystem : Words, component : Words, type : Words]

Entries(source) ==
  {Episode(source, goal, notes, trust) :
     goal \in Texts \ {<<>>}, notes \in Notes, trust \in Trusts}
    \cup {FaultEpisode(source, fault, action, trust) :
             fault \in Faults, action \in Actions, trust \in Trusts}

\* What is ingested may come without metadata.
Documents(source) ==
  {[source |-> source, type |-> meta[1], trust |-> meta[2], text |-> <<w, w>>] :
     meta \in {<<"none", "none">>, <<"procedural", "verified_procedure">>}, w \in Words}

\* The recorders insert, and a second row of a source breaks the unique constraint.
InsertOverwrites(row) == rows' = [rows EXCEPT ![row.source] = row]
Insert(row) ==
  /\ rows[row.source] = NoRow
  /\ rows' = [rows EXCEPT ![row.source] = row]

\* The commit succeeds, and the caller learns of it or gets the error of a
\* connection lost behind it; get_session rolls back whatever else fails.
Record ==
  /\ \E source \in Sources : \E row \in Entries(source) :
       /\ Insert(row)
       /\ \/ /\ recorded[source] = NoRow
             /\ recorded' = [recorded EXCEPT ![source] = row]
          \/ UNCHANGED recorded
  /\ UNCHANGED call

\* upsert: only what is ingested replaces what is there.
Ingest ==
  /\ \E source \in Sources : \E row \in Documents(source) :
       /\ rows' = [rows EXCEPT ![source] = row]
       /\ recorded' = [recorded EXCEPT ![source] = NoRow]
  /\ UNCHANGED call

-----------------------------------------------------------------------------
(***************************************************************************)
(* Searches                                                                *)
(***************************************************************************)
Matches(text, pattern) ==
  \E i \in 0 .. Len(text) - Len(pattern) : SubSeq(text, i + 1, i + Len(pattern)) = pattern

\* RetrievalQuery.to_search_string joins what is said of the situation.
SearchString(goal, faults, state, text) ==
  LET parts == goal \o faults \o state \o text
  IN IF parts = <<>> THEN <<"general procedure">> ELSE parts

\* The searches that filter afterwards ask the database for twice as many, recall
\* and the RagRetriever for no more than they return.
LimitTopK(kind, k) == k
Limit(kind, k) == IF kind \in {"recall", "documents"} THEN k ELSE 2 * k

\* search_by_content: as many of the rows that match as the limit allows, in
\* whichever order.
Search(c, kind, k, pattern) ==
  LET matching == {row \in Range(rows) : row # NoRow /\ Matches(row.text, pattern)}
      count == IF Cardinality(matching) < Limit(kind, k) THEN Cardinality(matching)
               ELSE Limit(kind, k)
  IN /\ call[c] = Idle
     /\ \E docs \in [1 .. count -> matching] :
          /\ IsInjective(docs)
          /\ call' = [call EXCEPT ![c] = [kind |-> kind, k |-> k, docs |-> docs,
                                         matching |-> matching]]
     /\ UNCHANGED <<rows, recorded>>

Retrieve(c, k) ==
  \E goal, text \in Texts, state \in {<<>>, <<"low energy">>, <<"navigation degraded">>} :
    Search(c, "retrieve", k, SearchString(goal, <<>>, state, text))

\* The tool gives its text as the goal and again as the free text.
RetrieveProcedure(c, k) ==
  \E text \in Texts : Search(c, "procedure", k, SearchString(text, <<>>, <<>>, text))

RetrieveFaultMemory(c, k) ==
  \E fault \in Faults :
    Search(c, "retrieve", k, SearchString(<<>>, <<fault.type>>, <<>>,
                                          <<fault.component, fault.type, "recovery">>))

LookupSimilar(c, k) ==
  \E fault \in Faults :
    Search(c, "lookup", k, <<fault.component, fault.type, fault.subsystem>>)

Recall(c, k) == \E w \in Words : Search(c, "recall", k, <<w>>)

\* The RagRetriever's, which neither filters nor ranks.
RetrieveDocuments(c, k) == \E w \in Words : Search(c, "documents", k, <<w>>)

Trusted(row) == RankOf(row) >= Rank[MinTrust]

FirstK(docs, k) == SubSeq(docs, 1, IF Len(docs) < k THEN Len(docs) ELSE k)

\* The loops that skip the rows outside a set and collect the others.
Kept(docs, set) ==
  LET kept[n \in 0 .. Len(docs)] ==
        IF n = 0 THEN <<>>
        ELSE IF docs[n] \in set THEN Append(kept[n - 1], docs[n]) ELSE kept[n - 1]
  IN kept[Len(docs)]

\* The stable sort by falling rank.
OfRank(docs, rank) == Kept(docs, {row \in Range(docs) : RankOf(row) = rank})
ByRankRising(docs) ==
  OfRank(docs, 1) \o OfRank(docs, 2) \o OfRank(docs, 3) \o OfRank(docs, 4) \o OfRank(docs, 5)
ByRank(docs) ==
  OfRank(docs, 5) \o OfRank(docs, 4) \o OfRank(docs, 3) \o OfRank(docs, 2) \o OfRank(docs, 1)

Retrieved(docs, k) == FirstK(ByRank(Kept(docs, {row \in Range(docs) : Trusted(row)})), k)

Procedures(docs, k) ==
  LET results    == Retrieved(docs, k)
      procedural == Kept(results, {row \in Range(results) : TypeOf(row) = "procedural"})
  IN IF procedural = <<>> THEN results ELSE procedural

Result(kind, k, docs) ==
  CASE kind = "retrieve"  -> Retrieved(docs, k)
    [] kind = "procedure" -> Procedures(docs, k)
    [] kind = "lookup"    ->
         FirstK(Kept(docs, {row \in Range(docs) : row.type = "fault" /\ Trusted(row)}), k)
    [] kind = "recall"    -> Kept(docs, {row \in Range(docs) : row.type = "episodic"})
    [] kind = "documents" -> docs

\* What a search makes of the rows that it read.
Answer(a) == [a EXCEPT !.docs = Result(a.kind, a.k, a.docs)]

\* The session is closed: the caller gets the answer, or the error of the commit.
Return(c) ==
  /\ call[c] # Idle
  /\ call' = [call EXCEPT ![c] = Idle]
  /\ UNCHANGED <<rows, recorded>>

-----------------------------------------------------------------------------
Ask(c, k) ==
  \/ Retrieve(c, k) \/ RetrieveProcedure(c, k) \/ RetrieveFaultMemory(c, k)
  \/ LookupSimilar(c, k) \/ Recall(c, k) \/ RetrieveDocuments(c, k)

Next ==
  \/ Record
  \/ Ingest
  \/ \E c \in Callers : Return(c) \/ \E k \in TopKs : Ask(c, k)

Spec == Init /\ [][Next]_vars

-----------------------------------------------------------------------------
(***************************************************************************)
(* Properties                                                              *)
(***************************************************************************)
\* What record_episode or record_fault reported as persisted stays as it was
\* reported until something is ingested under its source: not by another
\* episode of the same mission or component, nor by a retry of a recorder whose
\* commit had landed without its knowledge.
RecordedEntriesSurvive ==
  \A s \in Sources : recorded[s] # NoRow => rows[s] = recorded[s]

\* What a search is to return of the rows that its pattern finds.  (The pattern of
\* lookup_similar, the names of the fault in a row, finds a recorded fault only
\* if an action or outcome spells them so, whatever fault_memory.py:91 promises.)
Wanted(kind, row) ==
  CASE kind \in {"retrieve", "procedure"} -> Trusted(row)
    [] kind = "lookup" -> row.type = "fault" /\ Trusted(row)
    [] kind = "recall" -> row.type = "episodic"
    [] kind = "documents" -> TRUE

WantedRows(a) == {row \in a.matching : Wanted(a.kind, row)}

\* How many of the rows that match are more than are read: all that are wanted may
\* be among them, because the rows are filtered after they are read.
Unread(a) ==
  LET read == IF a.kind \in {"recall", "documents"} THEN a.k ELSE 2 * a.k
  IN IF Cardinality(a.matching) > read THEN Cardinality(a.matching) - read ELSE 0

\* retriever.py:3-12, fault_memory.py:91-95, episodic.py:59-61: a search returns
\* nothing it is not to return, and either its fill or all that was wanted but for
\* as many rows as were never read.  retrieve_procedure, which filters once more,
\* comes back empty-handed only if all that was wanted may have been unread.
MissedOnlyByLimit ==
  \A c \in Callers : call[c] # Idle =>
    LET answer == Answer(call[c])
        found  == Range(answer.docs)
    IN /\ found \subseteq WantedRows(answer)
       /\ answer.kind # "procedure" =>
            \/ Cardinality(found) >= answer.k
            \/ Cardinality(WantedRows(answer) \ found) <= Unread(answer)
       /\ answer.kind = "procedure" /\ found = {} =>
            Cardinality(WantedRows(answer)) <= Unread(answer)

\* As many other rows as were asked for match and are trusted no less.
Displaced(row, a) ==
  Cardinality({other \in WantedRows(a) \ {row} : RankOf(other) >= RankOf(row)}) >= a.k

\* retrieve_procedure has procedures to return, and this is none.
Filtered(row, a) ==
  /\ a.kind = "procedure" /\ TypeOf(row) # "procedural"
  /\ \E other \in Range(a.docs) : TypeOf(other) = "procedural"

\* retriever.py:3-12, "rerank by trust": but for as many rows as were never read,
\* the retriever withholds a trusted row only for its fill of rows trusted at least
\* as much, or for procedures when it was asked for procedures.
LostOnlyToTrust ==
  \A c \in Callers : call[c].kind \in {"retrieve", "procedure"} =>
    LET answer == Answer(call[c])
        lost   == {row \in WantedRows(answer) \ Range(answer.docs) :
                     ~ Displaced(row, answer) /\ ~ Filtered(row, answer)}
    IN Cardinality(lost) <= Unread(answer)

-----------------------------------------------------------------------------
(***************************************************************************)
(* What the proofs of MemoryStore_proofs strengthen them by                *)
(***************************************************************************)
Kinds == {"retrieve", "procedure", "lookup", "recall", "documents"}

Rows == UNION {Entries(s) \cup Documents(s) : s \in Sources}

TypeOK ==
  /\ rows \in [Sources -> Rows \cup {NoRow}]
  /\ recorded \in [Sources -> Rows \cup {NoRow}]
  /\ call \in [Callers -> [kind : Kinds, k : TopKs, docs : Seq(Rows), matching : SUBSET Rows]
                            \cup {Idle}]

\* A search in progress has read some of the rows that match, each once, and has
\* left no more of them than its limit made it leave.
SearchOK(a) ==
  /\ IsFiniteSet(a.matching)
  /\ Range(a.docs) \subseteq a.matching
  /\ IsInjective(a.docs)
  /\ Cardinality(a.matching \ Range(a.docs)) <= Unread(a)

SearchesComplete == \A c \in Callers : call[c] # Idle => SearchOK(call[c])

=============================================================================
