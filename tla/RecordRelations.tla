-------------------------- MODULE RecordRelations --------------------------
(***************************************************************************)
(* The relations a read emits with the records of a transcript             *)
(* (adapters/{claude,codex,omp}): a first pass over the generation counts  *)
(* the calls and results of every tool id and the places of every native   *)
(* id, the second emits the records one at a time, in order, and with each *)
(* the relations it completes.  A consumer may stop after any of them.     *)
(***************************************************************************)
EXTENDS Integers, Sequences, FiniteSets

CONSTANT Transcripts \* the transcripts to read: sequences of records

VARIABLES
    harness,
    transcript, \* the records of the generation
    at,         \* how many were emitted
    calls,      \* the tool calls emitted so far, per tool id
    results,    \* the tool results
    pairs,      \* the tool_pair relations emitted, in order
    replies     \* the reply_to relations emitted, in order

vars == <<harness, transcript, at, calls, results, pairs, replies>>

\* Of a record: its native id and that of its parent, 0 for none, and its
\* events that are about a tool.  The first pass does not count every event the
\* second emits: not a local_shell_call of Codex without a call_id, and not the
\* toolCall of an OMP custom_message.
Events == [kind : {"call", "result"}, id : Nat, counted : BOOLEAN]
Harnesses == {"claude", "codex", "omp v1", "omp"}
ConstantsOK ==
    Transcripts \subseteq Seq([id : Nat, parent : Nat, events : Seq(Events)])

Positions == DOMAIN transcript
Places == UNION {{[record |-> r, event |-> e] : e \in DOMAIN transcript[r].events} :
                    r \in Positions}
Event(p) == transcript[p.record].events[p.event]
Ids == {Event(p).id : p \in Places}

TypeOK ==
    /\ harness \in Harnesses
    /\ transcript \in Transcripts
    /\ at \in 0 .. Len(transcript)
    /\ \A id \in DOMAIN calls : \A i \in DOMAIN calls[id] : calls[id][i] \in Places
    /\ \A id \in DOMAIN results :
          \A i \in DOMAIN results[id] : results[id][i] \in Places
    /\ \A i \in DOMAIN pairs : pairs[i].call \in Places /\ pairs[i].result \in Places
    /\ \A i \in DOMAIN replies : replies[i] \in Positions \X Positions

Init ==
    /\ harness \in Harnesses
    /\ transcript \in Transcripts
    \* Claude counts whatever it emits; a record of Codex is one event.
    /\ harness = "claude" => \A p \in Places : Event(p).counted
    /\ harness = "codex" => \A r \in Positions : Len(transcript[r].events) <= 1
    /\ at = 0
    /\ calls = [id \in Ids |-> <<>>]
    /\ results = [id \in Ids |-> <<>>]
    /\ pairs = <<>>
    /\ replies = <<>>

-----------------------------------------------------------------------------
(* The first pass: classifyTools, classifyToolCorrelation, indexTools, and *)
(* the indexes of the native ids.                                          *)

Counted(kind, id) ==
    Cardinality({p \in Places :
                    Event(p) = [kind |-> kind, id |-> id, counted |-> TRUE]})
UniqueSoFar(id) ==
    /\ Cardinality({p \in Places : p.record <= at + 1 /\ Event(p).id = id
                                        /\ Event(p).kind = "call"}) = 1
    /\ Cardinality({p \in Places : p.record <= at + 1 /\ Event(p).id = id
                                        /\ Event(p).kind = "result"}) = 1
UniqueToolPair(id) == Counted("call", id) = 1 /\ Counted("result", id) = 1
WithId(id) == {r \in Positions : id # 0 /\ transcript[r].id = id}

-----------------------------------------------------------------------------
(* The second pass, next: one record.                                      *)

\* The parent of a record, if it is known without doubt; it may come later.
Parents(r) ==
    CASE harness = "omp v1" -> {r - 1} \cap Positions
      [] harness = "codex" -> {}
      [] OTHER ->
         LET parents == WithId(transcript[r].parent) IN
         IF Cardinality(parents) = 1 /\ r \notin parents
            /\ (harness = "omp" => Cardinality(WithId(transcript[r].id)) = 1)
         THEN parents ELSE {}

\* The elements of a set, in order.
InOrder(S, Before(_, _)) ==
    LET rank == [x \in S |-> Cardinality({y \in S : Before(y, x)})] IN
    [i \in 1 .. Cardinality(S) |-> CHOOSE x \in S : rank[x] = i - 1]

Precedes(p, q) == \/ p.record < q.record
                  \/ p.record = q.record /\ p.event < q.event
Emitted(kind, id, upTo) ==
    {p \in Places : /\ Event(p).kind = kind /\ Event(p).id = id
                    /\ p = upTo \/ Precedes(p, upTo)}
After(kind, upTo) ==
    [id \in Ids |-> InOrder(Emitted(kind, id, upTo), Precedes)]

\* Claude: after the events of a record, every id whose only call or only result
\* is in it.
ClaudePairs(newCalls, newResults, r) ==
    LET paired == {id \in Ids : /\ UniqueToolPair(id)
                                /\ Len(newCalls[id]) = 1 /\ Len(newResults[id]) = 1
                                /\ \/ newCalls[id][1].record = r
                                   \/ newResults[id][1].record = r}
        order == InOrder(paired, <) IN
    [i \in DOMAIN order |-> [id |-> order[i], call |-> newCalls[order[i]][1],
                             result |-> newResults[order[i]][1]]]

\* Codex and OMP: with each event.  Codex has lists of what was emitted, OMP
\* one place each, which the last one takes.
Latest(s) == s[Len(s)]
Completes(place) ==
    LET id == Event(place).id
        newCalls == After("call", place)[id]
        newResults == After("result", place)[id] IN
    /\ UniqueToolPair(id)
    /\ newCalls # <<>> /\ newResults # <<>>
    /\ harness = "codex" =>
          Len(IF Event(place).kind = "call" THEN newResults ELSE newCalls) = 1
EventPair(place) ==
    LET id == Event(place).id IN
    [id |-> id, call |-> Latest(After("call", place)[id]),
     result |-> Latest(After("result", place)[id])]
EventPairs(r) ==
    LET place(e) == [record |-> r, event |-> e]
        order == InOrder({e \in DOMAIN transcript[r].events : Completes(place(e))}, <) IN
    [i \in DOMAIN order |-> EventPair(place(order[i]))]

Next ==
    /\ at < Len(transcript)
    /\ LET r == at + 1
           last == [record |-> r, event |-> Len(transcript[r].events)] IN
       /\ at' = r
       /\ calls' = After("call", last)
       /\ results' = After("result", last)
       /\ pairs' = pairs \o IF harness = "claude"
                            THEN ClaudePairs(calls', results', r)
                            ELSE EventPairs(r)
       /\ replies' = IF Parents(r) = {} THEN replies
                     ELSE Append(replies, <<r, CHOOSE p \in Parents(r) : TRUE>>)
    /\ UNCHANGED <<harness, transcript>>

Spec == Init /\ [][Next]_vars

-----------------------------------------------------------------------------
\* Of the ids whose every event is counted, the read has paired those with one
\* call and one result in the whole transcript as soon as both were emitted,
\* once and in whatever order they came, and no others; and no record has two
\* parents, or one that another record could be.
EverCounted(id) == \A p \in Places : Event(p).id = id => Event(p).counted
Uses(kind, id) == {p \in Places : Event(p).kind = kind /\ Event(p).id = id}
RelationsExact ==
    /\ \A id \in {i \in Ids : EverCounted(i)} :
          LET emitted == {i \in DOMAIN pairs : pairs[i].id = id} IN
          IF /\ Cardinality(Uses("call", id)) = 1
             /\ Cardinality(Uses("result", id)) = 1
             /\ \A p \in Uses("call", id) \cup Uses("result", id) : p.record <= at
          THEN /\ Cardinality(emitted) = 1
               /\ \A i \in emitted : /\ Uses("call", id) = {pairs[i].call}
                                     /\ Uses("result", id) = {pairs[i].result}
          ELSE emitted = {}
    /\ \A i, j \in DOMAIN replies : replies[i][1] = replies[j][1] => i = j
    /\ harness \in {"claude", "omp"} =>
          \A i \in DOMAIN replies :
              LET parent == transcript[replies[i][1]].parent IN
              {r \in Positions : transcript[r].id = parent} = {replies[i][2]}
=============================================================================
